---- MODULE Spec2Model ----
(***************************************************************************)
(* Frame scheduler of the renderer (src/src/renderer.rs) over the          *)
(* swapchain wrapper (src/src/swapchain.rs) and a GPU that completes       *)
(* submitted work asynchronously.  The render thread is one process; its   *)
(* position is pc.  Every fallible driver call of Renderer::draw,          *)
(* Renderer::resize and Renderer::recreate_swapchain is a step that either *)
(* succeeds or makes the call return the error (the `?` operator).         *)
(***************************************************************************)
EXTENDS Integers, Sequences, FiniteSets, TLC

\* ------------------------------------------------------------------ bounds

\* Largest min_image_count / max_image_count a surface reports, and the most
\* images the driver creates for a chain whose max_image_count is 0 (no limit).
MaxImageCount == 3

\* Calls of Renderer::draw in one run.
MaxDraws == 5

\* Swapchains created in one run (the one of Renderer::new included).
MaxChains == 3

\* Calls of draw or resize the application still makes after one of them
\* returned an error.
MaxCallsAfterError == 1

\* Largest width / height of a window or of an extent the surface reports.
MaxExtent == 2

\* Longest payload, in bytes, given to a buffer or an image.
MaxLen == 2

\* Most memory types the device reports.
MaxMemoryTypes == 3

\* Longest shader file, in bytes.
MaxShaderLen == 4

\* Most calls of draw when the semaphores are followed.
MaxSyncDraws == 3

\* Most swapchains created when the semaphores are followed.
MaxSyncChains == 2

\* --------------------------------------------------------------- constants

\* const FRAMES_IN_FLIGHT: u32 = 2
FRAMES_IN_FLIGHT == 2

\* u32::MAX: the largest value of the type; in the model, the value above
\* every width and height a window or a surface has.
U32_MAX == MaxExtent + 1

VARIABLES
    frames_in_flight,   \* Renderer.frames_in_flight
    image_limit,        \* surface: the most images the driver creates for a chain
    per_frame_index,    \* Renderer.per_frame_index
    fence_frame_done,   \* PerFrameData.fence_frame_done, per slot: TRUE = signaled
    swapchain,          \* Renderer.swapchain: handle id, alive, number of images/views
    frame_buffers,      \* Renderer.frame_buffers: chain they were built from, alive, length
    chains_created,     \* swapchain handles the driver has handed out so far
    in_flight,          \* GPU: per slot, submissions not yet completed
    pc,                 \* position of the render thread
    ret,                \* where recreate_swapchain returns to
    present_index,      \* local of draw: image index returned by acquire, and its chain
    call,               \* observation of the current (or last) call of the renderer
    hist,               \* observation of the run up to its first fatal error (see Observed)
    destroyed,          \* handles destroyed by Drop for Renderer, in order
    probe               \* inputs and result of the set-up function under study

vars == << frames_in_flight, image_limit, per_frame_index, fence_frame_done,
           swapchain, frame_buffers, chains_created, in_flight, pc, ret,
           present_index, call, hist, destroyed, probe >>

\* ------------------------------------------------------------ pure helpers

Max(a, b) == IF a >= b THEN a ELSE b

\* u32::clamp(self, min, max)
Clamp(x, lo, hi) == IF x < lo THEN lo ELSE IF x > hi THEN hi ELSE x

\* Surface capabilities the driver may report: min_image_count >= 1, and
\* max_image_count either 0 (no limit) or >= min_image_count.
SurfaceCapabilities ==
    { c \in [min_image_count : 1..MaxImageCount, max_image_count : 0..MaxImageCount] :
        c.max_image_count = 0 \/ c.min_image_count <= c.max_image_count }

\* Variant: the upper limit of the surface is not looked at.
compute_frames_in_flight_unbounded(caps) ==
    Max(FRAMES_IN_FLIGHT, caps.min_image_count)

\* Renderer::frames_in_flight
compute_frames_in_flight(caps) ==
    IF caps.max_image_count = 0
    THEN Max(FRAMES_IN_FLIGHT, caps.min_image_count)
    ELSE Clamp(FRAMES_IN_FLIGHT, caps.min_image_count, caps.max_image_count)

\* The most images the driver creates for a chain on a surface with `caps`.
ImageLimit(caps) ==
    IF caps.max_image_count = 0 THEN MaxImageCount ELSE caps.max_image_count

Slots == 0 .. (frames_in_flight - 1)

\* Variant: the chain is asked for with the constant.
Swapchain_make_min_image_count_hardcoded(n) == FRAMES_IN_FLIGHT

\* Swapchain::make: .min_image_count(frames_in_flight), the image count the
\* chain is asked for.
Swapchain_make_min_image_count(n) == n

\* Swapchain::make: the chain is asked for with min_image_count(frames_in_flight)
\* and the driver creates that many images or more (get_swapchain_images).
ImageCounts == frames_in_flight .. image_limit

\* Variant: the fence is created with default (empty) flags.
FenceCreatedUnsignaled == FALSE

\* PerFrameData::new: vk::FenceCreateFlags::SIGNALED
FenceCreatedSignaled == TRUE

\* ------------------------------------------------------ swapchain extent

\* Sizes of the window and extents of a surface.
Extents == [width : 0..MaxExtent, height : 0..MaxExtent]

\* current_extent of a surface whose size the swapchain decides.
ClientDecides == [width |-> U32_MAX, height |-> U32_MAX]

\* Surface capabilities as far as the extent goes.  The driver reports
\* min_image_extent <= max_image_extent, and a current_extent that is either
\* the (u32::MAX, u32::MAX) value or lies between the two.
ExtentCapabilities ==
    { c \in [ current_extent : Extents \cup { ClientDecides },
              min_image_extent : Extents, max_image_extent : Extents ] :
        /\ c.min_image_extent.width <= c.max_image_extent.width
        /\ c.min_image_extent.height <= c.max_image_extent.height
        /\ c.current_extent # ClientDecides =>
              /\ c.min_image_extent.width <= c.current_extent.width
              /\ c.current_extent.width <= c.max_image_extent.width
              /\ c.min_image_extent.height <= c.current_extent.height
              /\ c.current_extent.height <= c.max_image_extent.height }

\* Variant: the window size is clamped whatever the surface reports.
Swapchain_compute_extent_size_only(size, capabilities) ==
    [ width  |-> Clamp(size.width, capabilities.min_image_extent.width,
                       capabilities.max_image_extent.width),
      height |-> Clamp(size.height, capabilities.min_image_extent.height,
                       capabilities.max_image_extent.height) ]

\* Variant: the window size is taken as it is.
Swapchain_compute_extent_unclamped(size, capabilities) ==
    IF capabilities.current_extent = ClientDecides
    THEN [ width |-> size.width, height |-> size.height ]
    ELSE capabilities.current_extent

\* Swapchain::compute_extent
Swapchain_compute_extent(size, capabilities) ==
    IF capabilities.current_extent = ClientDecides
    THEN [ width  |-> Clamp(size.width, capabilities.min_image_extent.width,
                            capabilities.max_image_extent.width),
           height |-> Clamp(size.height, capabilities.min_image_extent.height,
                            capabilities.max_image_extent.height) ]
    ELSE capabilities.current_extent

\* Variant: the size of the window is used whatever the caller passed.
recreate_swapchain_size_window(size, inner_size) == inner_size

\* recreate_swapchain: match size { Some(size) => *size, None => inner_size() }
recreate_swapchain_size(size, inner_size) ==
    IF size.tag = "Some" THEN size.value ELSE inner_size

\* The sizes and extents are followed when a resize is under study
\* (probe.fn = "Renderer_resize"); the frame loop abstracts from them.
Unqueried == [tag |-> "unqueried"]

\* The function under study has not returned yet.
Pending == [tag |-> "pending"]

\* resize(size): the sizes the window layer may pass.
Renderer_resize_size(p) ==
    IF p.fn = "Renderer_resize"
    THEN { [p EXCEPT !.size = [tag |-> "Some", value |-> z],
                     !.capabilities = Unqueried,
                     !.result = Pending] : z \in Extents }
    ELSE { p }

\* Swapchain::new stores the extent Swapchain::make computes from the size it
\* is given and the capabilities the surface reports at that moment.
Swapchain_new_extent(p) ==
    IF p.fn = "Renderer_resize"
    THEN { [p EXCEPT !.capabilities = c,
                     !.result = [tag |-> "Ok",
                                 value |-> Swapchain_compute_extent(
                                     recreate_swapchain_size(p.size, inner_size), c)]] :
              c \in ExtentCapabilities, inner_size \in Extents }
    ELSE { p }

\* ------------------------------------------------------- driver answers

TransientCodes == { "SUBOPTIMAL_KHR", "ERROR_OUT_OF_DATE_KHR" }
FatalCodes     == { "ERROR_DEVICE_LOST", "ERROR_SURFACE_LOST_KHR" }

\* What acquire_next_image may answer for a chain of `images` images.
AcquireAnswers(images) ==
    { [code |-> c, index |-> i] : c \in { "SUCCESS", "SUBOPTIMAL_KHR" }, i \in 0..(images - 1) }
    \cup { [code |-> c, index |-> 0] : c \in { "ERROR_OUT_OF_DATE_KHR" } \cup FatalCodes }

\* What queue_present may answer.
PresentAnswers == { "SUCCESS" } \cup TransientCodes \cup FatalCodes

\* Variant: a suboptimal image is used as it is (no rebuild).
Swapchain_acquire_suboptimal_ok(r) ==
    CASE r.code \in { "SUCCESS", "SUBOPTIMAL_KHR" } -> [tag |-> "Some", index |-> r.index]
      [] r.code = "ERROR_OUT_OF_DATE_KHR"           -> [tag |-> "None", index |-> 0]
      [] OTHER                                      -> [tag |-> "Err",  index |-> 0]

\* Variant: every error of acquire_next_image asks for a rebuild.
Swapchain_acquire_any_error_rebuilds(r) ==
    CASE r.code = "SUCCESS" -> [tag |-> "Some", index |-> r.index]
      [] OTHER              -> [tag |-> "None", index |-> 0]

\* Swapchain::acquire: the match on acquire_next_image's result.
Swapchain_acquire(r) ==
    CASE r.code = "SUCCESS"               -> [tag |-> "Some", index |-> r.index]
      [] r.code = "SUBOPTIMAL_KHR"        -> [tag |-> "None", index |-> 0]
      [] r.code = "ERROR_OUT_OF_DATE_KHR" -> [tag |-> "None", index |-> 0]
      [] OTHER                            -> [tag |-> "Err",  index |-> 0]

\* Variant: out-of-date is not told apart from the other errors.
Swapchain_present_out_of_date_is_error(code) ==
    CASE code = "SUCCESS"        -> "false"
      [] code = "SUBOPTIMAL_KHR" -> "true"
      [] OTHER                   -> "Err"

\* Swapchain::present: the match on queue_present's result.
Swapchain_present(code) ==
    CASE code = "SUCCESS"               -> "false"
      [] code = "SUBOPTIMAL_KHR"        -> "true"
      [] code = "ERROR_OUT_OF_DATE_KHR" -> "true"
      [] OTHER                          -> "Err"

\* ------------------------------------------------------------ semaphores
\* The semaphores of the frame slots, the images of the chain and the queue of
\* the presentation engine are followed when the synchronisation of draw is
\* under study (probe.fn = "Renderer_draw"): image_ready[i] and render_done[i]
\* are the semaphores of per_frame_data[i].

NoFrame ==
    [acquire_semaphore |-> -1, acquire_index |-> -1, wait_semaphore |-> -1,
     signal_semaphore |-> -1, present_semaphore |-> -1, present_index |-> -1]

\* draw is entered: nothing of this call has been given to the driver yet.
Renderer_draw_enter(p) ==
    IF p.fn = "Renderer_draw" THEN [p EXCEPT !.frame = NoFrame] ELSE p

\* Variant: the submission waits on the image-ready semaphore of the next slot.
Renderer_draw_submit_info_next_slot(slot, n) ==
    [wait_semaphore |-> (slot + 1) % n, signal_semaphore |-> slot]

\* vk::SubmitInfo of draw: wait_semaphores = [semaphore_image_ready],
\* signal_semaphores = [semaphore_render_done], both of per_frame_data[slot].
Renderer_draw_submit_info(slot, n) ==
    [wait_semaphore |-> slot, signal_semaphore |-> slot]

\* vk::PresentInfoKHR of Swapchain::present as draw calls it:
\* wait_semaphores = [semaphore_render_done] of the slot, image_indices =
\* [present_index].
Renderer_draw_present_info(slot, index) ==
    [wait_semaphore |-> slot, image_index |-> index]

\* acquire_next_image(swapchain, u64::MAX, semaphore, Fence::null()) answering
\* r: an image is handed out only if the presentation engine does not hold it,
\* and then the semaphore is signaled.
acquire_next_image(p, semaphore, r) ==
    IF p.fn # "Renderer_draw" THEN { p }
    ELSE IF r.code \in { "SUCCESS", "SUBOPTIMAL_KHR" }
    THEN IF r.index \in p.free
         THEN { [p EXCEPT !.free = @ \ { r.index },
                          !.image_ready[semaphore] = "signaled",
                          !.frame.acquire_semaphore = semaphore,
                          !.frame.acquire_index = r.index] }
         ELSE { }
    ELSE { [p EXCEPT !.frame.acquire_semaphore = semaphore] }

\* queue_submit: the signal of the render-done semaphore is pending until the
\* GPU completes the submission.
queue_submit(p, info) ==
    IF p.fn # "Renderer_draw" THEN p
    ELSE [p EXCEPT !.render_done[info.signal_semaphore] = "pending",
                   !.frame.wait_semaphore = info.wait_semaphore,
                   !.frame.signal_semaphore = info.signal_semaphore]

\* The GPU completes the submission of slot i: its wait consumed the signal of
\* the image-ready semaphore, and the render-done semaphore is signaled.
queue_complete(p, i) ==
    IF p.fn # "Renderer_draw" THEN p
    ELSE [p EXCEPT !.image_ready[i] = "unsignaled",
                   !.render_done[i] = "signaled"]

\* queue_present answering code: unless the device or the surface is lost the
\* request is enqueued and its semaphore wait will execute.
queue_present(p, info, chain, code) ==
    IF p.fn # "Renderer_draw" THEN p
    ELSE [p EXCEPT !.presents = IF code \in FatalCodes THEN @
                                ELSE Append(@, [semaphore |-> info.wait_semaphore,
                                                chain |-> chain,
                                                index |-> info.image_index]),
                   !.frame.present_semaphore = info.wait_semaphore,
                   !.frame.present_index = info.image_index]

\* Swapchain::new: the k images of the new chain are all with the
\* presentation engine, free to be acquired.
Swapchain_new_images(p, k) ==
    IF p.fn # "Renderer_draw" THEN p ELSE [p EXCEPT !.free = 0..(k - 1)]

\* Variant: the wait returns at once (a timeout of 0).
wait_for_fences_no_wait(signaled) == TRUE

\* wait_for_fences(&[fence], true, u64::MAX): returns once the fence is signaled.
wait_for_fences(signaled) == signaled

\* Variant: the index is left as it is.
next_per_frame_index_stuck(i, n) == i

\* self.per_frame_index = (self.per_frame_index + 1) % self.frames_in_flight
next_per_frame_index(i, n) == (i + 1) % n

\* Variant: an `if` in place of the loop: after the rebuild, go on recording.
after_acquire_rebuild_no_retry == "record_command_buffer"

\* Variant: device_wait_idle is left out (returns at once).
device_wait_idle_no_wait(pending) == TRUE

\* device_wait_idle(): returns once the queue has no pending work.
device_wait_idle(pending) == \A i \in DOMAIN pending : pending[i] = 0

\* The loop of draw around Swapchain::acquire: after a rebuild, acquire again.
after_acquire_rebuild == "acquire"

\* Variant: the swapchain is destroyed before the frame buffers built on it.
recreate_swapchain_next_chain_first(step) ==
    CASE step = "device_wait_idle"      -> "destroy_swapchain"
      [] step = "destroy_swapchain"     -> "destroy_frame_buffers"
      [] step = "destroy_frame_buffers" -> "Swapchain_new"
      [] step = "Swapchain_new"         -> "FrameBuffers_new"
      [] step = "FrameBuffers_new"      -> ret

\* Renderer::recreate_swapchain: the step that follows each of its steps.
recreate_swapchain_next(step) ==
    CASE step = "device_wait_idle"      -> "destroy_frame_buffers"
      [] step = "destroy_frame_buffers" -> "destroy_swapchain"
      [] step = "destroy_swapchain"     -> "Swapchain_new"
      [] step = "Swapchain_new"         -> "FrameBuffers_new"
      [] step = "FrameBuffers_new"      -> ret

\* ------------------------------------------------------------ observation

NoIndex == [chain |-> 0, index |-> 0]

\* A counter of the observation that stops at `most`: the properties tell 0
\* from 1 from more (fatals, other: most = 1; acq_ood, rebuilds: most = 2).
Counted(n, by, most) == IF n + by > most THEN most ELSE n + by

\* No set-up function is under study in the frame loop.
NoProbe == [fn |-> "none"]

\* The record kept of one call of draw or resize: the driver's answers to
\* acquire and present and what the wrappers made of them, whether a driver
\* call answered with a fatal error, and what the call submitted and presented.
NewCall(op) ==
    [ op |-> op, result |-> "running", fatal |-> FALSE,
      first_wait |-> (op = "draw" /\ per_frame_index \notin hist.waited),
      acq_raw |-> [code |-> "-", index |-> 0], acq_ret |-> [tag |-> "-", index |-> 0],
      pres_raw |-> "-", pres_ret |-> "-",
      acq_ood |-> 0, submits |-> 0, presents |-> 0, rebuilds |-> 0,
      submit_fb |-> 0, submit_img |-> 0, present_chain |-> 0 ]

\* The driver may still answer with a transient signal (or the window be resized).
MaySignal ==
    chains_created < (IF probe.fn = "Renderer_draw" THEN MaxSyncChains ELSE MaxChains)

\* The history is the observation of the run up to its first fatal error:
\* from then on only the successful draws, the slots waited on and the calls
\* made after the error are kept up.  When the semaphores are followed only
\* the number of draws and the error are.
Observed(h) ==
    IF probe.fn = "Renderer_draw"
    THEN [h EXCEPT !.ok_draws = 0, !.after_err = 0, !.acq_ood = 0, !.other = 0,
                   !.rebuilds = 0, !.presents = 0, !.waited = {}, !.submitted = << >>]
    ELSE IF h.fatals = 0 THEN h
    ELSE [h EXCEPT !.draws = 0, !.acq_ood = 0, !.other = 0, !.rebuilds = 0,
                   !.presents = 0, !.submitted = << >>]

\* The application may still call draw or resize.
MayCall ==
    \/ hist.fatals = 0
    \/ probe.fn # "Renderer_draw" /\ hist.after_err < MaxCallsAfterError

\* The call returns `res` to its caller ("ok", "err") or unwinds ("panic").
Finish(c, res, h) ==
    /\ call' = [c EXCEPT !.result = res]
    /\ hist' = Observed([h EXCEPT !.ok_draws = @ + (IF c.op = "draw" /\ res = "ok" THEN 1 ELSE 0)])
    /\ pc' = IF res = "panic" THEN "panicked" ELSE "idle"
    /\ present_index' = NoIndex

\* A driver call whose result is propagated with `?` answers with an error.
DriverCallFails ==
    Finish([call EXCEPT !.fatal = TRUE], "err", [hist EXCEPT !.fatals = Counted(@, 1, 1)])

\* ------------------------------------------------------------------- Init

\* The state Renderer::new leaves: frames_in_flight computed from the surface
\* capabilities, one swapchain and its frame buffers, every fence as created.
Init ==
    /\ \E caps \in SurfaceCapabilities :
          /\ frames_in_flight = compute_frames_in_flight(caps)
          /\ image_limit = ImageLimit(caps)
    /\ per_frame_index = 0
    /\ fence_frame_done = [i \in 0..(frames_in_flight - 1) |-> FenceCreatedSignaled]
    /\ \E k \in frames_in_flight .. image_limit :
          /\ swapchain = [id |-> 1, alive |-> TRUE, images |-> k,
                          min_image_count |->
                              Swapchain_make_min_image_count(frames_in_flight)]
          /\ frame_buffers = [chain |-> 1, alive |-> TRUE, count |-> k]
    /\ chains_created = 1
    /\ in_flight = [i \in 0..(frames_in_flight - 1) |-> 0]
    /\ pc = "idle"
    /\ ret = "acquire"
    /\ present_index = NoIndex
    /\ hist = [ draws |-> 0, ok_draws |-> 0, fatals |-> 0, after_err |-> 0,
                acq_ood |-> 0, other |-> 0, rebuilds |-> 0, presents |-> 0,
                waited |-> {}, submitted |-> << >> ]
    /\ destroyed = << >>
    /\ probe = NoProbe
    /\ call = [ op |-> "none", result |-> "ok", fatal |-> FALSE, first_wait |-> FALSE,
                acq_raw |-> [code |-> "-", index |-> 0],
                acq_ret |-> [tag |-> "-", index |-> 0],
                pres_raw |-> "-", pres_ret |-> "-",
                acq_ood |-> 0, submits |-> 0, presents |-> 0, rebuilds |-> 0,
                submit_fb |-> 0, submit_img |-> 0, present_chain |-> 0 ]

\* ------------------------------------------------------- Renderer::draw

\* draw is entered: the per-frame data of slot per_frame_index is picked.
DrawCall ==
    /\ pc = "idle"
    /\ hist.draws < (IF probe.fn = "Renderer_draw" THEN MaxSyncDraws ELSE MaxDraws)
    /\ MayCall
    /\ pc' = "wait_for_fences"
    /\ call' = NewCall("draw")
    /\ hist' = Observed([hist EXCEPT !.draws = @ + 1, !.waited = @ \cup {per_frame_index},
                            !.after_err = @ + (IF hist.fatals > 0 THEN 1 ELSE 0)])
    /\ probe' = Renderer_draw_enter(probe)
    /\ UNCHANGED << destroyed, frames_in_flight, image_limit, per_frame_index, fence_frame_done,
                    swapchain, frame_buffers, chains_created, in_flight, ret, present_index >>

\* self.device.wait_for_fences(&[fence_frame_done], true, u64::MAX)?
WaitForFences ==
    /\ pc = "wait_for_fences"
    /\ \/ /\ wait_for_fences(fence_frame_done[per_frame_index])
          /\ pc' = "reset_fences"
          /\ UNCHANGED << call, hist, present_index >>
       \/ DriverCallFails
    /\ UNCHANGED << destroyed, probe, frames_in_flight, image_limit, per_frame_index, fence_frame_done,
                    swapchain, frame_buffers, chains_created, in_flight, ret >>

\* self.device.reset_fences(&[fence_frame_done])?
ResetFences ==
    /\ pc = "reset_fences"
    /\ \/ /\ fence_frame_done' = [fence_frame_done EXCEPT ![per_frame_index] = FALSE]
          /\ pc' = "acquire"
          /\ UNCHANGED << call, hist, present_index >>
       \/ /\ DriverCallFails
          /\ UNCHANGED fence_frame_done
    /\ UNCHANGED << destroyed, probe, frames_in_flight, image_limit, per_frame_index,
                    swapchain, frame_buffers, chains_created, in_flight, ret >>

\* self.swapchain.acquire(&semaphore_image_ready)? and the match on its result.
Acquire ==
    /\ pc = "acquire"
    /\ \E r \in AcquireAnswers(swapchain.images) :
         /\ r.code \in TransientCodes => MaySignal
         /\ probe' \in acquire_next_image(probe, per_frame_index, r)
         /\ LET m == Swapchain_acquire(r)
                fatal == r.code \in FatalCodes
                ood == IF r.code = "ERROR_OUT_OF_DATE_KHR" THEN 1 ELSE 0
                sub == IF r.code = "SUBOPTIMAL_KHR" THEN 1 ELSE 0
                c == [call EXCEPT !.acq_raw = r, !.acq_ret = m, !.acq_ood = @ + ood,
                                  !.fatal = @ \/ fatal]
                h == [hist EXCEPT !.fatals = Counted(@, IF fatal THEN 1 ELSE 0, 1),
                                  !.acq_ood = Counted(@, ood, 2),
                                  !.other = Counted(@, sub, 1)]
            IN  \/ /\ m.tag = "Some"
                   /\ present_index' = [chain |-> swapchain.id, index |-> m.index]
                   /\ pc' = "record_command_buffer"
                   /\ call' = c /\ hist' = Observed(h)
                   /\ UNCHANGED ret
                \/ /\ m.tag = "None"
                   /\ pc' = "device_wait_idle"
                   /\ ret' = after_acquire_rebuild
                   /\ call' = c /\ hist' = Observed(h)
                   /\ UNCHANGED present_index
                \/ /\ m.tag = "Err"
                   /\ Finish(c, "err", h)
                   /\ UNCHANGED ret
    /\ UNCHANGED << destroyed, frames_in_flight, image_limit, per_frame_index, fence_frame_done,
                    swapchain, frame_buffers, chains_created, in_flight >>

\* reset_command_buffer(command_buffer)?, begin_command_buffer(command_buffer)?,
\* cmd_set_viewport, cmd_set_scissor, render_pass.begin(.., present_index) with
\* frame_buffers[present_index], triangle_renderer.draw, render_pass.end,
\* end_command_buffer(command_buffer)?.  Nothing but the command buffer of the
\* slot changes; any of the three fallible calls may fail, and indexing past
\* the end of the frame buffer vector panics.
RecordCommandBuffer ==
    /\ pc = "record_command_buffer"
    /\ \/ /\ present_index.index < frame_buffers.count
          /\ pc' = "queue_submit"
          /\ UNCHANGED << call, hist, present_index >>
       \/ /\ present_index.index >= frame_buffers.count
          /\ Finish(call, "panic", hist)
       \/ DriverCallFails
    /\ UNCHANGED << destroyed, probe, frames_in_flight, image_limit, per_frame_index, fence_frame_done,
                    swapchain, frame_buffers, chains_created, in_flight, ret >>

\* TriangleRenderer::draw: the element of per_frame_data whose uniform buffer is
\* overwritten and whose descriptor set is bound while the frame of the slot
\* `slot` is recorded: self.per_frame_data[self.per_frame_index], where
\* self.per_frame_index is the renderer's own field, 0 since new; the argument is
\* not read.
TriangleRenderer_uniform_index(slot) == 0

\* self.device.queue_submit(queue, &[submit_info], fence_frame_done)?
QueueSubmit ==
    /\ pc = "queue_submit"
    /\ \/ /\ in_flight' = [in_flight EXCEPT ![per_frame_index] = @ + 1]
          /\ pc' = "present"
          /\ call' = [call EXCEPT !.submits = @ + 1,
                                  !.submit_fb = frame_buffers.chain,
                                  !.submit_img = present_index.chain]
          /\ hist' = Observed([hist EXCEPT !.submitted = Append(@, per_frame_index)])
          /\ probe' = queue_submit(probe, Renderer_draw_submit_info(per_frame_index,
                                                                    frames_in_flight))
          /\ UNCHANGED present_index
       \/ /\ DriverCallFails
          /\ UNCHANGED << in_flight, probe >>
    /\ UNCHANGED << destroyed, frames_in_flight, image_limit, per_frame_index, fence_frame_done,
                    swapchain, frame_buffers, chains_created, ret >>

\* self.swapchain.present(&self.device, &semaphore_render_done, present_index)?
\* and the match on its result.
Present ==
    /\ pc = "present"
    /\ \E code \in PresentAnswers :
         /\ code \in TransientCodes => MaySignal
         /\ probe' = queue_present(probe,
                                   Renderer_draw_present_info(per_frame_index,
                                                              present_index.index),
                                   swapchain.id, code)
         /\ LET m == Swapchain_present(code)
                fatal == code \in FatalCodes
                sig == IF code \in TransientCodes THEN 1 ELSE 0
                queued == IF code \in { "SUCCESS", "SUBOPTIMAL_KHR" } THEN 1 ELSE 0
                c == [call EXCEPT !.pres_raw = code, !.pres_ret = m,
                                  !.presents = @ + queued,
                                  !.present_chain = IF queued = 1 THEN swapchain.id ELSE @,
                                  !.fatal = @ \/ fatal]
                h == [hist EXCEPT !.fatals = Counted(@, IF fatal THEN 1 ELSE 0, 1),
                                  !.other = Counted(@, sig, 1),
                                  !.presents = @ + queued]
            IN  \/ /\ m = "false"
                   /\ pc' = "advance"
                   /\ call' = c /\ hist' = Observed(h)
                   /\ UNCHANGED << ret, present_index >>
                \/ /\ m = "true"
                   /\ pc' = "device_wait_idle"
                   /\ ret' = "advance"
                   /\ call' = c /\ hist' = Observed(h)
                   /\ UNCHANGED present_index
                \/ /\ m = "Err"
                   /\ Finish(c, "err", h)
                   /\ UNCHANGED ret
    /\ UNCHANGED << destroyed, frames_in_flight, image_limit, per_frame_index, fence_frame_done,
                    swapchain, frame_buffers, chains_created, in_flight >>

\* Variant: draw returns right after the rebuild that follows present, before
\* the index is advanced.
AdvanceUnlessRebuilt ==
    /\ pc = "advance"
    /\ per_frame_index' = IF call.pres_ret = "true"
                          THEN per_frame_index
                          ELSE next_per_frame_index(per_frame_index, frames_in_flight)
    /\ Finish(call, "ok", hist)
    /\ UNCHANGED << destroyed, probe, frames_in_flight, image_limit, fence_frame_done,
                    swapchain, frame_buffers, chains_created, in_flight, ret >>

\* The per-frame index advances and draw returns Ok(()).
Advance ==
    /\ pc = "advance"
    /\ per_frame_index' = next_per_frame_index(per_frame_index, frames_in_flight)
    /\ Finish(call, "ok", hist)
    /\ UNCHANGED << destroyed, probe, frames_in_flight, image_limit, fence_frame_done,
                    swapchain, frame_buffers, chains_created, in_flight, ret >>

\* ----------------------------------------- Renderer::recreate_swapchain

\* self.device.device_wait_idle()?: returns once the queue has no pending work.
DeviceWaitIdle ==
    /\ pc = "device_wait_idle"
    /\ \/ /\ device_wait_idle(in_flight)
          /\ pc' = recreate_swapchain_next("device_wait_idle")
          /\ UNCHANGED << call, hist, present_index >>
       \/ DriverCallFails
    /\ UNCHANGED << destroyed, probe, frames_in_flight, image_limit, per_frame_index, fence_frame_done,
                    swapchain, frame_buffers, chains_created, in_flight, ret >>

\* self.frame_buffers.destroy(&self.device)
DestroyFrameBuffers ==
    /\ pc = "destroy_frame_buffers"
    /\ frame_buffers' = [frame_buffers EXCEPT !.alive = FALSE]
    /\ pc' = recreate_swapchain_next("destroy_frame_buffers")
    /\ UNCHANGED << destroyed, probe, frames_in_flight, image_limit, per_frame_index, fence_frame_done,
                    swapchain, chains_created, in_flight, ret, present_index, call, hist >>

\* self.swapchain.destroy(&self.device): the image views, then the chain.
DestroySwapchain ==
    /\ pc = "destroy_swapchain"
    /\ swapchain' = [swapchain EXCEPT !.alive = FALSE]
    /\ pc' = recreate_swapchain_next("destroy_swapchain")
    /\ UNCHANGED << destroyed, probe, frames_in_flight, image_limit, per_frame_index, fence_frame_done,
                    frame_buffers, chains_created, in_flight, ret, present_index, call, hist >>

\* self.swapchain = Swapchain::new(&size, .., self.frames_in_flight)?
SwapchainNew ==
    /\ pc = "Swapchain_new"
    /\ \/ /\ \E k \in ImageCounts :
                /\ swapchain' = [id |-> chains_created + 1, alive |-> TRUE, images |-> k,
                                 min_image_count |->
                                     Swapchain_make_min_image_count(frames_in_flight)]
                /\ probe' \in Swapchain_new_extent(Swapchain_new_images(probe, k))
          /\ chains_created' = chains_created + 1
          /\ pc' = recreate_swapchain_next("Swapchain_new")
          /\ UNCHANGED << call, hist, present_index >>
       \/ /\ DriverCallFails
          /\ UNCHANGED << swapchain, chains_created, probe >>
    /\ UNCHANGED << destroyed, frames_in_flight, image_limit, per_frame_index, fence_frame_done,
                    frame_buffers, in_flight, ret >>

\* self.frame_buffers = FrameBuffers::new(&self.device, &self.swapchain, ..)?
\* and the return of recreate_swapchain to its caller.
FrameBuffersNew ==
    /\ pc = "FrameBuffers_new"
    /\ \/ /\ frame_buffers' = [chain |-> swapchain.id, alive |-> swapchain.alive,
                               count |-> swapchain.images]
          /\ pc' = recreate_swapchain_next("FrameBuffers_new")
          /\ call' = [call EXCEPT !.rebuilds = @ + 1]
          /\ hist' = Observed([hist EXCEPT !.rebuilds = Counted(@, 1, 2)])
          /\ UNCHANGED present_index
       \/ /\ DriverCallFails
          /\ UNCHANGED frame_buffers
    /\ UNCHANGED << destroyed, probe, frames_in_flight, image_limit, per_frame_index, fence_frame_done,
                    swapchain, chains_created, in_flight, ret >>

\* ----------------------------------------------------- Renderer::resize

\* resize(size) is entered: self.recreate_swapchain(Some(size))?
ResizeCall ==
    /\ pc = "idle"
    /\ MaySignal
    /\ MayCall
    /\ pc' = "device_wait_idle"
    /\ ret' = "resize_return"
    /\ call' = NewCall("resize")
    /\ hist' = Observed([hist EXCEPT !.other = Counted(@, 1, 1),
                            !.after_err = @ + (IF hist.fatals > 0 THEN 1 ELSE 0)])
    /\ probe' \in Renderer_resize_size(probe)
    /\ UNCHANGED << destroyed, frames_in_flight, image_limit, per_frame_index, fence_frame_done,
                    swapchain, frame_buffers, chains_created, in_flight, present_index >>

\* resize returns Ok(()).
ResizeReturn ==
    /\ pc = "resize_return"
    /\ Finish(call, "ok", hist)
    /\ UNCHANGED << destroyed, probe, frames_in_flight, image_limit, per_frame_index, fence_frame_done,
                    swapchain, frame_buffers, chains_created, in_flight, ret >>

\* -------------------------------------------------------------- the GPU

\* The GPU completes a submission of slot i and signals the fence given to
\* queue_submit with it.
GpuComplete(i) ==
    /\ in_flight[i] > 0
    /\ in_flight' = [in_flight EXCEPT ![i] = @ - 1]
    /\ fence_frame_done' = [fence_frame_done EXCEPT ![i] = TRUE]
    /\ probe' = queue_complete(probe, i)
    /\ UNCHANGED << destroyed, frames_in_flight, image_limit, per_frame_index, swapchain,
                    frame_buffers, chains_created, pc, ret, present_index, call, hist >>

\* ------------------------------------------------------ Drop for Renderer

\* The handles each destroy call of Drop for Renderer releases, in the order
\* the call releases them.
PerFrameData_destroy ==
    << "fence_frame_done", "semaphore_image_ready", "semaphore_render_done" >>

TriangleRenderer_destroy ==
    << "pipeline", "pipeline_layout", "uniforms", "descriptor_pool",
       "descriptor_set_layout", "indices", "vertices", "sampler", "image" >>

FrameBuffers_destroy == << "frame_buffers" >>

RenderPass_destroy == << "render_pass" >>

Swapchain_destroy == << "image_views", "swapchain" >>

\* Device::destroy: the two command pools (destroy_command_pool frees the
\* command buffers allocated from the pool with it), then the device.
Device_destroy ==
    << "transient_command_pool", "command_buffer", "command_pool", "device" >>

\* The handles one destroy call of Drop for Renderer releases.
Renderer_destroy(part, debugging) ==
    CASE part = "per_frame_data"    -> PerFrameData_destroy
      [] part = "triangle_renderer" -> TriangleRenderer_destroy
      [] part = "frame_buffers"     -> FrameBuffers_destroy
      [] part = "render_pass"       -> RenderPass_destroy
      [] part = "swapchain"         -> Swapchain_destroy
      [] part = "device"            -> Device_destroy
      [] part = "surface"           -> << "surface" >>
      [] part = "debugging"         -> IF debugging = "Some" THEN << "debugging" >> ELSE << >>
      [] part = "instance"          -> << "instance" >>

\* Variant: the render pass is destroyed before what was created against it.
Renderer_drop_render_pass_first ==
    << "per_frame_data", "render_pass", "triangle_renderer", "frame_buffers",
       "swapchain", "device", "surface", "debugging", "instance" >>

\* Variant: the debugging data is destroyed first.
Renderer_drop_debugging_first ==
    << "debugging", "per_frame_data", "triangle_renderer", "frame_buffers",
       "render_pass", "swapchain", "device", "surface", "instance" >>

\* Drop for Renderer: its destroy calls, in order.
Renderer_drop ==
    << "per_frame_data", "triangle_renderer", "frame_buffers", "render_pass",
       "swapchain", "device", "surface", "debugging", "instance" >>

\* The handles released by the destroy calls `parts`, in order.
RECURSIVE Released(_, _)
Released(parts, debugging) ==
    IF parts = << >> THEN << >>
    ELSE Renderer_destroy(Head(parts), debugging) \o Released(Tail(parts), debugging)

\* The Renderer is dropped: when the application exits, or while a panic of
\* draw unwinds.
DropCall ==
    /\ pc \in { "idle", "panicked" }
    /\ pc' = "drop_device_wait_idle"
    /\ call' = NewCall("drop")
    /\ UNCHANGED << destroyed, probe, frames_in_flight, image_limit, per_frame_index,
                    fence_frame_done, swapchain, frame_buffers, chains_created,
                    in_flight, ret, present_index, hist >>

\* self.device.device_wait_idle().unwrap(): an error panics inside drop, and
\* nothing is destroyed.
DropDeviceWaitIdle ==
    /\ pc = "drop_device_wait_idle"
    /\ \/ /\ device_wait_idle(in_flight)
          /\ pc' = "drop_destroy"
          /\ UNCHANGED call
       \/ /\ pc' = "drop_panicked"
          /\ call' = [call EXCEPT !.result = "panic"]
    /\ UNCHANGED << destroyed, probe, frames_in_flight, image_limit, per_frame_index,
                    fence_frame_done, swapchain, frame_buffers, chains_created,
                    in_flight, ret, present_index, hist >>

\* The destroy calls of Drop for Renderer, none of which can fail, and the
\* return of drop; self.debugging is Some or None.
DropDestroy ==
    /\ pc = "drop_destroy"
    /\ \E debugging \in { "Some", "None" } :
          destroyed' = destroyed \o Released(Renderer_drop, debugging)
    /\ frame_buffers' = [frame_buffers EXCEPT !.alive = FALSE]
    /\ swapchain' = [swapchain EXCEPT !.alive = FALSE]
    /\ pc' = "dropped"
    /\ call' = [call EXCEPT !.result = "ok"]
    /\ UNCHANGED << probe, frames_in_flight, image_limit, per_frame_index,
                    fence_frame_done, chains_created, in_flight, ret,
                    present_index, hist >>

Next ==
    \/ DrawCall
    \/ WaitForFences
    \/ ResetFences
    \/ Acquire
    \/ RecordCommandBuffer
    \/ QueueSubmit
    \/ Present
    \/ Advance
    \/ DeviceWaitIdle
    \/ DestroyFrameBuffers
    \/ DestroySwapchain
    \/ SwapchainNew
    \/ FrameBuffersNew
    \/ ResizeCall
    \/ ResizeReturn
    \/ DropCall
    \/ DropDeviceWaitIdle
    \/ DropDestroy
    \/ \E i \in Slots : GpuComplete(i)

Spec == Init /\ [][Next]_vars

\* ================================================================ set-up
\* The selections made while the renderer is built (and, for the swapchain,
\* again at every rebuild): Device::new picks the physical device and queue
\* family, Swapchain::make picks the surface format, the present mode and the
\* extent.  Each is a function of what the driver reports; probe holds the
\* report and the result.

\* Physical device / queue family tuples in one enumeration.
MaxCandidates == 2

\* score += 1000 for a discrete GPU
DISCRETE_GPU_SCORE == 1000

renderer_vars == << frames_in_flight, image_limit, per_frame_index, fence_frame_done,
                    swapchain, frame_buffers, chains_created, in_flight, pc, ret,
                    present_index, call, hist, destroyed >>

\* Sequences over S without repetition, of length at most n.
SeqsOf(S, n) ==
    { q \in UNION { [1..k -> S] : k \in 0..n } :
        \A i, j \in DOMAIN q : q[i] = q[j] => i = j }

\* Sequences over S of length at most n.
ListsOf(S, n) == UNION { [1..k -> S] : k \in 0..n }

Range(q) == { q[i] : i \in DOMAIN q }

Bytes == { 0, 1 }

\* ---------------------------------------------------------- Device::new

\* One (physical device, queue family) tuple as Device::new sees it: what
\* is_suitable and score read from the driver for it.
\* `failed` names the surface query of is_suitable the driver answers with an
\* error, if any: "surface" for get_physical_device_surface_formats or
\* .._present_modes, "presentation" for get_physical_device_surface_support.
\* A query fails only if it is made, and what a failed or an unmade query
\* would have answered is not part of the tuple (FALSE).
Tuples ==
    [ extensions : BOOLEAN,          \* device_has_extensions(required_extensions)
      sampler_anisotropy : BOOLEAN,  \* features.sampler_anisotropy != 0
      surface : BOOLEAN,             \* formats and present modes queried, both non-empty
      graphics : BOOLEAN,            \* queue_flags contains GRAPHICS
      presentation : BOOLEAN,        \* get_physical_device_surface_support
      discrete : BOOLEAN,            \* device_type == DISCRETE_GPU
      failed : { "none" } ]
    \cup [ extensions : { TRUE }, sampler_anisotropy : { TRUE }, surface : { FALSE },
           graphics : BOOLEAN, presentation : { FALSE }, discrete : BOOLEAN,
           failed : { "surface" } ]
    \cup [ extensions : { TRUE }, sampler_anisotropy : { TRUE }, surface : { TRUE },
           graphics : BOOLEAN, presentation : { FALSE }, discrete : BOOLEAN,
           failed : { "presentation" } ]

\* Surface::supports_presentation: the driver's answer, .unwrap_or(false)
Surface_supports_presentation(t) ==
    IF t.failed = "presentation" THEN FALSE ELSE t.presentation

\* Device::is_suitable
Device_is_suitable_result(t) ==
    IF ~t.extensions THEN [tag |-> "Ok", value |-> FALSE]
    ELSE IF ~t.sampler_anisotropy THEN [tag |-> "Ok", value |-> FALSE]
    ELSE IF t.failed = "surface" THEN [tag |-> "Err", value |-> FALSE]
    ELSE IF ~t.surface THEN [tag |-> "Ok", value |-> FALSE]
    ELSE [tag |-> "Ok", value |-> t.graphics /\ Surface_supports_presentation(t)]

\* Device::is_suitable(..).unwrap_or(false)
Device_is_suitable(t) ==
    LET r == Device_is_suitable_result(t)
    IN  IF r.tag = "Ok" THEN r.value ELSE FALSE

\* Device::score
Device_score(t) == IF t.discrete THEN 0 + DISCRETE_GPU_SCORE ELSE 0

\* .filter(is_suitable).map(score): the suitable tuples in enumeration order,
\* each with its score and its place in the enumeration.
RECURSIVE Device_candidates(_, _)
Device_candidates(tuples, i) ==
    IF i > Len(tuples) THEN << >>
    ELSE (IF Device_is_suitable(tuples[i])
          THEN << [score |-> Device_score(tuples[i]), index |-> i] >>
          ELSE << >>) \o Device_candidates(tuples, i + 1)

\* Variant: sort_by(|a, b| a.0.cmp(&b.0)), lowest score first.
RECURSIVE sort_insert_ascending(_, _)
sort_insert_ascending(x, sorted) ==
    IF sorted = << >> THEN << x >>
    ELSE IF Head(sorted).score <= x.score
         THEN << Head(sorted) >> \o sort_insert_ascending(x, Tail(sorted))
         ELSE << x >> \o sorted

\* One insertion of the stable sort by descending score: x goes behind every
\* element whose score is not lower.
RECURSIVE sort_insert(_, _)
sort_insert(x, sorted) ==
    IF sorted = << >> THEN << x >>
    ELSE IF Head(sorted).score >= x.score
         THEN << Head(sorted) >> \o sort_insert(x, Tail(sorted))
         ELSE << x >> \o sorted

\* candidates.sort_by(|a, b| b.0.cmp(&a.0)): stable, highest score first.
RECURSIVE sort_by_score(_)
sort_by_score(q) ==
    IF q = << >> THEN << >>
    ELSE sort_insert(q[Len(q)], sort_by_score(SubSeq(q, 1, Len(q) - 1)))

\* Device::new up to the choice of the candidate: candidates.first() or the
\* error "No suitable physical device found!".
Device_new(tuples) ==
    LET candidates == sort_by_score(Device_candidates(tuples, 1))
    IN  IF candidates = << >>
        THEN [tag |-> "Err", index |-> 0]
        ELSE [tag |-> "Ok", index |-> candidates[1].index]

\* ------------------------------------------------------- Swapchain::make

BGRA8_SRGB == [format |-> "B8G8R8A8_SRGB", color_space |-> "SRGB_NONLINEAR"]
RGBA8_SRGB == [format |-> "R8G8B8A8_SRGB", color_space |-> "SRGB_NONLINEAR"]

\* Formats a surface may advertise: the two preferred ones, and two that
\* differ from them in the format or in the colour space only.
SurfaceFormats ==
    { BGRA8_SRGB, RGBA8_SRGB,
      [format |-> "B8G8R8A8_UNORM", color_space |-> "SRGB_NONLINEAR"],
      [format |-> "B8G8R8A8_SRGB", color_space |-> "EXTENDED_SRGB_LINEAR"] }

PresentModes == { "FIFO", "IMMEDIATE", "MAILBOX", "FIFO_RELAXED" }

\* preferred.into_iter().find(|x| available.contains(x))
RECURSIVE find_first(_, _)
find_first(preferred, available) ==
    IF preferred = << >> THEN [tag |-> "None"]
    ELSE IF Head(preferred) \in Range(available)
         THEN [tag |-> "Some", value |-> Head(preferred)]
         ELSE find_first(Tail(preferred), available)

\* let preferred_formats = [B8G8R8A8_SRGB / SRGB_NONLINEAR, R8G8B8A8_SRGB / SRGB_NONLINEAR]
preferred_formats == << BGRA8_SRGB, RGBA8_SRGB >>

\* Variant: the TODO of the source carried out: the first advertised format
\* when none of the preferred ones is advertised.
Swapchain_make_format_fallback(available) ==
    LET found == find_first(preferred_formats, available)
    IN  IF found.tag = "Some" THEN [tag |-> "Ok", value |-> found.value]
        ELSE IF available # << >> THEN [tag |-> "Ok", value |-> available[1]]
        ELSE [tag |-> "Err", value |-> "No suitable swapchain format found."]

\* Swapchain::make: the format, or "No suitable swapchain format found."
Swapchain_make_format(available) ==
    LET found == find_first(preferred_formats, available)
    IN  IF found.tag = "Some" THEN [tag |-> "Ok", value |-> found.value]
        ELSE [tag |-> "Err", value |-> "No suitable swapchain format found."]

\* Variant: low latency first.
preferred_present_modes_low_latency == << "MAILBOX", "IMMEDIATE", "FIFO" >>

\* let preferred_present_modes = [PresentModeKHR::FIFO, PresentModeKHR::IMMEDIATE]
preferred_present_modes == << "FIFO", "IMMEDIATE" >>

\* Swapchain::make: the present mode, or "No suitable swapchain present mode found."
Swapchain_make_present_mode(available) ==
    LET found == find_first(preferred_present_modes, available)
    IN  IF found.tag = "Some" THEN [tag |-> "Ok", value |-> found.value]
        ELSE [tag |-> "Err", value |-> "No suitable swapchain present mode found."]

\* ------------------------------------------------------------ memory types

MemoryPropertyFlags == { "DEVICE_LOCAL", "HOST_VISIBLE" }

\* vk::PhysicalDeviceMemoryProperties: memory_type_count and the property flags
\* of each type.
MemoryTypeTables == ListsOf(SUBSET MemoryPropertyFlags, MaxMemoryTypes)

\* memory_type_bits of a resource: one bit per type index, also for indices the
\* device has no type for.
MemoryTypeBits == 0 .. (2 ^ (MaxMemoryTypes + 1) - 1)

\* bits & (1 << i) != 0
bit_is_set(bits, i) == (bits \div (2 ^ i)) % 2 = 1

\* Variant: the resource's memory_type_bits are not looked at.
memory_type_matches_any_bits(memory_types, memory_type_bits, properties, i) ==
    properties \subseteq memory_types[i + 1]

\* The condition of the loop body of find_memory_type.
memory_type_matches(memory_types, memory_type_bits, properties, i) ==
    /\ bit_is_set(memory_type_bits, i)
    /\ properties \subseteq memory_types[i + 1]

RECURSIVE find_memory_type_from(_, _, _, _)
\* The loop of find_memory_type from index i on.
find_memory_type_from(i, memory_types, memory_type_bits, properties) ==
    IF i >= Len(memory_types)
    THEN [tag |-> "Err", value |-> "Failed to find a suitable memory type!"]
    ELSE IF memory_type_matches(memory_types, memory_type_bits, properties, i)
         THEN [tag |-> "Ok", value |-> i]
         ELSE find_memory_type_from(i + 1, memory_types, memory_type_bits, properties)

\* find_memory_type
find_memory_type(memory_types, memory_type_bits, properties) ==
    find_memory_type_from(0, memory_types, memory_type_bits, properties)

\* ------------------------------------------------- Pipeline::load_shader

NoCode == [tag |-> "None"]

\* What read(path) gives: an error, or the bytes of the file in a Vec<u8>.
\* `aligned` says whether the Vec's buffer starts at a multiple of
\* align_of::<u32>(): the allocator's blocks do; an empty Vec may hold no block
\* at all, its pointer then being the dangling address align_of::<u8>().
ShaderFiles ==
    { [tag |-> "Err", bytes |-> << >>, aligned |-> TRUE] }
    \cup { [tag |-> "Ok", bytes |-> b, aligned |-> TRUE] :
              b \in ListsOf(Bytes, MaxShaderLen) }
    \cup { [tag |-> "Ok", bytes |-> << >>, aligned |-> FALSE] }

\* bytemuck::cast_slice::<u8, u32>: every four bytes are one word, first byte
\* lowest.
cast_slice(bytes) ==
    [i \in 1..(Len(bytes) \div 4) |->
        bytes[4 * i - 3] + 256 * bytes[4 * i - 2]
          + 65536 * bytes[4 * i - 1] + 16777216 * bytes[4 * i]]

\* The bytes the driver reads from the words of vk::ShaderModuleCreateInfo.
code_bytes(words) ==
    [k \in 1..(4 * Len(words)) |->
        (words[(k + 3) \div 4] \div (256 ^ ((k - 1) % 4))) % 256]

\* Pipeline::load_shader; create_ok is the driver's answer to
\* create_shader_module.  cast_slice panics when the buffer is not aligned
\* for u32.
Pipeline_load_shader(file, create_ok) ==
    IF file.tag = "Err"
    THEN [tag |-> "Err", value |-> "read", code |-> NoCode]
    ELSE IF Len(file.bytes) % 4 # 0
    THEN [tag |-> "Err", value |-> "The SPIR-V shader is not aligned to 4 bytes.",
          code |-> NoCode]
    ELSE IF ~file.aligned
    THEN [tag |-> "panic", value |-> "TargetAlignmentGreaterAndInputNotAligned",
          code |-> NoCode]
    ELSE IF ~create_ok
    THEN [tag |-> "Err", value |-> "create_shader_module",
          code |-> [tag |-> "Some", value |-> cast_slice(file.bytes)]]
    ELSE [tag |-> "Ok", value |-> "shader",
          code |-> [tag |-> "Some", value |-> cast_slice(file.bytes)]]

\* ------------------------------------------------- the set-up under study

Selections ==
    { "Device_new", "Swapchain_make_format", "Swapchain_make_present_mode",
      "Swapchain_compute_extent", "Renderer_frames_in_flight", "find_memory_type",
      "Pipeline_load_shader" }

\* What the driver may report to the selection fn.
Reports(fn) ==
    CASE fn = "Device_new" ->
           { [fn |-> fn, tuples |-> q, result |-> Pending] :
                q \in ListsOf(Tuples, MaxCandidates) }
      [] fn = "Swapchain_make_format" ->
           { [fn |-> fn, available |-> q, result |-> Pending] :
                q \in SeqsOf(SurfaceFormats, Cardinality(SurfaceFormats)) }
      [] fn = "Swapchain_make_present_mode" ->
           { [fn |-> fn, available |-> q, result |-> Pending] :
                q \in SeqsOf(PresentModes, Cardinality(PresentModes)) }
      [] fn = "Swapchain_compute_extent" ->
           { [fn |-> fn, size |-> z, capabilities |-> c, result |-> Pending] :
                z \in Extents, c \in ExtentCapabilities }
      [] fn = "Renderer_frames_in_flight" ->
           { [fn |-> fn, capabilities |-> c, result |-> Pending] :
                c \in SurfaceCapabilities }
      [] fn = "find_memory_type" ->
           { [fn |-> fn, memory_types |-> t, memory_type_bits |-> b,
              properties |-> f, result |-> Pending] :
                t \in MemoryTypeTables, b \in MemoryTypeBits,
                f \in SUBSET MemoryPropertyFlags }
      [] fn = "Pipeline_load_shader" ->
           { [fn |-> fn, file |-> f, create_ok |-> c, result |-> Pending] :
                f \in ShaderFiles, c \in BOOLEAN }

\* The renderer is being built: there is no frame loop yet.
InitSetup ==
    /\ \E fn \in Selections : probe \in Reports(fn)
    /\ frames_in_flight = FRAMES_IN_FLIGHT
    /\ image_limit = FRAMES_IN_FLIGHT
    /\ per_frame_index = 0
    /\ fence_frame_done = [i \in 0..(FRAMES_IN_FLIGHT - 1) |-> FenceCreatedSignaled]
    /\ swapchain = [id |-> 0, alive |-> FALSE, images |-> 0, min_image_count |-> 0]
    /\ frame_buffers = [chain |-> 0, alive |-> FALSE, count |-> 0]
    /\ chains_created = 0
    /\ in_flight = [i \in 0..(FRAMES_IN_FLIGHT - 1) |-> 0]
    /\ pc = "Renderer_new"
    /\ ret = "acquire"
    /\ present_index = NoIndex
    /\ hist = [ draws |-> 0, ok_draws |-> 0, fatals |-> 0, after_err |-> 0,
                acq_ood |-> 0, other |-> 0, rebuilds |-> 0, presents |-> 0,
                waited |-> {}, submitted |-> << >> ]
    /\ call = [ op |-> "none", result |-> "ok", fatal |-> FALSE, first_wait |-> FALSE,
                acq_raw |-> [code |-> "-", index |-> 0],
                acq_ret |-> [tag |-> "-", index |-> 0],
                pres_raw |-> "-", pres_ret |-> "-",
                acq_ood |-> 0, submits |-> 0, presents |-> 0, rebuilds |-> 0,
                submit_fb |-> 0, submit_img |-> 0, present_chain |-> 0 ]
    /\ destroyed = << >>

\* Device::new chooses among the tuples.
DeviceNew ==
    /\ probe.fn = "Device_new" /\ probe.result = Pending
    /\ probe' = [probe EXCEPT !.result = Device_new(probe.tuples)]
    /\ UNCHANGED renderer_vars

\* Swapchain::make chooses the surface format.
SwapchainMakeFormat ==
    /\ probe.fn = "Swapchain_make_format" /\ probe.result = Pending
    /\ probe' = [probe EXCEPT !.result = Swapchain_make_format(probe.available)]
    /\ UNCHANGED renderer_vars

\* Swapchain::make chooses the present mode.
SwapchainMakePresentMode ==
    /\ probe.fn = "Swapchain_make_present_mode" /\ probe.result = Pending
    /\ probe' = [probe EXCEPT !.result = Swapchain_make_present_mode(probe.available)]
    /\ UNCHANGED renderer_vars

\* Swapchain::make computes the extent, which Swapchain::new stores.
SwapchainMakeExtent ==
    /\ probe.fn = "Swapchain_compute_extent" /\ probe.result = Pending
    /\ probe' = [probe EXCEPT !.result =
                    [tag |-> "Ok",
                     value |-> Swapchain_compute_extent(probe.size, probe.capabilities)]]
    /\ UNCHANGED renderer_vars

\* Renderer::new computes frames_in_flight and asks Swapchain::new for a chain
\* of that many images.
RendererFramesInFlight ==
    /\ probe.fn = "Renderer_frames_in_flight" /\ probe.result = Pending
    /\ probe' = [probe EXCEPT !.result =
                    [tag |-> "Ok",
                     value |-> Swapchain_make_min_image_count(
                                   compute_frames_in_flight(probe.capabilities))]]
    /\ UNCHANGED renderer_vars

\* new_buffer / new_image ask for a memory type.
FindMemoryType ==
    /\ probe.fn = "find_memory_type" /\ probe.result = Pending
    /\ probe' = [probe EXCEPT !.result =
                    find_memory_type(probe.memory_types, probe.memory_type_bits,
                                     probe.properties)]
    /\ UNCHANGED renderer_vars

\* Pipeline::new loads a shader.
PipelineLoadShader ==
    /\ probe.fn = "Pipeline_load_shader" /\ probe.result = Pending
    /\ probe' = [probe EXCEPT !.result =
                    Pipeline_load_shader(probe.file, probe.create_ok)]
    /\ UNCHANGED renderer_vars

NextSetup ==
    \/ RendererFramesInFlight
    \/ PipelineLoadShader
    \/ FindMemoryType
    \/ DeviceNew
    \/ SwapchainMakeFormat
    \/ SwapchainMakePresentMode
    \/ SwapchainMakeExtent

SpecSetup == InitSetup /\ [][NextSetup]_vars

\* ================================================================ resize
\* Renderer::resize with the sizes followed.  The renderer has two slots and
\* is idle; what came before is one of: nothing (Renderer::new has returned), a
\* draw that returned Ok and whose frame may still be executing, a draw that
\* returned Ok after present was answered suboptimal and the chain was
\* rebuilt, a draw that returned the error acquire answered with.

EarlierCall(pres_raw, pres_ret, rebuilds) ==
    [ op |-> "draw", result |-> "ok", fatal |-> FALSE, first_wait |-> TRUE,
      acq_raw |-> [code |-> "SUCCESS", index |-> 0],
      acq_ret |-> [tag |-> "Some", index |-> 0],
      pres_raw |-> pres_raw, pres_ret |-> pres_ret,
      acq_ood |-> 0, submits |-> 1, presents |-> 1, rebuilds |-> rebuilds,
      submit_fb |-> 1, submit_img |-> 1, present_chain |-> 1 ]

EarlierHist(draws, fatals, other, rebuilds) ==
    [ draws |-> draws, ok_draws |-> draws, fatals |-> fatals, after_err |-> 0,
      acq_ood |-> 0, other |-> other, rebuilds |-> rebuilds, presents |-> draws,
      waited |-> {0}, submitted |-> IF draws = 0 THEN << >> ELSE << 0 >> ]

EarlierOutcomes ==
    { [ per_frame_index |-> 1, fence0 |-> FALSE, in_flight0 |-> 1, chain |-> 1, ret |-> "acquire",
        call |-> EarlierCall("SUCCESS", "false", 0), hist |-> EarlierHist(1, 0, 0, 0) ],
      [ per_frame_index |-> 1, fence0 |-> TRUE, in_flight0 |-> 0, chain |-> 1, ret |-> "acquire",
        call |-> EarlierCall("SUCCESS", "false", 0), hist |-> EarlierHist(1, 0, 0, 0) ],
      [ per_frame_index |-> 1, fence0 |-> TRUE, in_flight0 |-> 0, chain |-> 2, ret |-> "advance",
        call |-> EarlierCall("SUBOPTIMAL_KHR", "true", 1), hist |-> EarlierHist(1, 0, 1, 1) ],
      [ per_frame_index |-> 0, fence0 |-> FALSE, in_flight0 |-> 0, chain |-> 1, ret |-> "acquire",
        call |-> [ EarlierCall("-", "-", 0) EXCEPT
                     !.result = "err", !.fatal = TRUE,
                     !.acq_raw = [code |-> "ERROR_DEVICE_LOST", index |-> 0],
                     !.acq_ret = [tag |-> "Err", index |-> 0],
                     !.submits = 0, !.presents = 0,
                     !.submit_fb = 0, !.submit_img = 0, !.present_chain = 0 ],
        hist |-> EarlierHist(0, 1, 0, 0) ] }

InitResize ==
    /\ probe = [fn |-> "Renderer_resize", size |-> [tag |-> "None"],
                capabilities |-> Unqueried, result |-> Pending]
    /\ frames_in_flight = FRAMES_IN_FLIGHT
    /\ image_limit = FRAMES_IN_FLIGHT
    /\ pc = "idle"
    /\ present_index = NoIndex
    /\ destroyed = << >>
    /\ \/ /\ per_frame_index = 0
          /\ fence_frame_done = [i \in 0..(FRAMES_IN_FLIGHT - 1) |-> FenceCreatedSignaled]
          /\ in_flight = [i \in 0..(FRAMES_IN_FLIGHT - 1) |-> 0]
          /\ swapchain = [id |-> 1, alive |-> TRUE, images |-> FRAMES_IN_FLIGHT,
                          min_image_count |->
                              Swapchain_make_min_image_count(FRAMES_IN_FLIGHT)]
          /\ frame_buffers = [chain |-> 1, alive |-> TRUE, count |-> FRAMES_IN_FLIGHT]
          /\ chains_created = 1
          /\ ret = "acquire"
          /\ hist = [EarlierHist(0, 0, 0, 0) EXCEPT !.waited = {}]
          /\ call = [ EarlierCall("-", "-", 0) EXCEPT
                        !.op = "none", !.first_wait = FALSE,
                        !.acq_raw = [code |-> "-", index |-> 0],
                        !.acq_ret = [tag |-> "-", index |-> 0],
                        !.submits = 0, !.presents = 0,
                        !.submit_fb = 0, !.submit_img = 0, !.present_chain = 0 ]
       \/ \E e \in EarlierOutcomes :
          /\ per_frame_index = e.per_frame_index
          /\ fence_frame_done = [i \in 0..(FRAMES_IN_FLIGHT - 1) |->
                                    IF i = 0 THEN e.fence0 ELSE FenceCreatedSignaled]
          /\ in_flight = [i \in 0..(FRAMES_IN_FLIGHT - 1) |->
                             IF i = 0 THEN e.in_flight0 ELSE 0]
          /\ swapchain = [id |-> e.chain, alive |-> TRUE, images |-> FRAMES_IN_FLIGHT,
                          min_image_count |->
                              Swapchain_make_min_image_count(FRAMES_IN_FLIGHT)]
          /\ frame_buffers = [chain |-> e.chain, alive |-> TRUE,
                              count |-> FRAMES_IN_FLIGHT]
          /\ chains_created = e.chain
          /\ ret = e.ret
          /\ hist = e.hist
          /\ call = e.call

\* resize is called, any number of times; the GPU goes on with what it has.
NextResize ==
    \/ ResizeCall
    \/ DeviceWaitIdle
    \/ DestroyFrameBuffers
    \/ DestroySwapchain
    \/ SwapchainNew
    \/ FrameBuffersNew
    \/ ResizeReturn
    \/ \E i \in Slots : GpuComplete(i)

SpecResize == InitResize /\ [][NextResize]_vars

\* ================================================================ synchronisation
\* The frame loop with the semaphores, the images and the presentation engine
\* followed.

InitSync ==
    /\ \E caps \in SurfaceCapabilities :
          /\ caps.max_image_count # 0
          /\ caps.max_image_count <= FRAMES_IN_FLIGHT + 1
          /\ frames_in_flight = compute_frames_in_flight(caps)
          /\ image_limit = ImageLimit(caps)
    /\ per_frame_index = 0
    /\ fence_frame_done = [i \in 0..(frames_in_flight - 1) |-> FenceCreatedSignaled]
    /\ \E k \in frames_in_flight .. image_limit :
          /\ swapchain = [id |-> 1, alive |-> TRUE, images |-> k,
                          min_image_count |->
                              Swapchain_make_min_image_count(frames_in_flight)]
          /\ frame_buffers = [chain |-> 1, alive |-> TRUE, count |-> k]
          /\ probe = [fn |-> "Renderer_draw",
                      image_ready |-> [i \in 0..(frames_in_flight - 1) |-> "unsignaled"],
                      render_done |-> [i \in 0..(frames_in_flight - 1) |-> "unsignaled"],
                      presents |-> << >>,
                      free |-> 0..(k - 1),
                      frame |-> NoFrame]
    /\ chains_created = 1
    /\ in_flight = [i \in 0..(frames_in_flight - 1) |-> 0]
    /\ pc = "idle"
    /\ ret = "acquire"
    /\ present_index = NoIndex
    /\ hist = [ draws |-> 0, ok_draws |-> 0, fatals |-> 0, after_err |-> 0,
                acq_ood |-> 0, other |-> 0, rebuilds |-> 0, presents |-> 0,
                waited |-> {}, submitted |-> << >> ]
    /\ destroyed = << >>
    /\ call = [ op |-> "none", result |-> "ok", fatal |-> FALSE, first_wait |-> FALSE,
                acq_raw |-> [code |-> "-", index |-> 0],
                acq_ret |-> [tag |-> "-", index |-> 0],
                pres_raw |-> "-", pres_ret |-> "-",
                acq_ood |-> 0, submits |-> 0, presents |-> 0, rebuilds |-> 0,
                submit_fb |-> 0, submit_img |-> 0, present_chain |-> 0 ]

\* The presentation engine executes the oldest present request once the
\* semaphore it waits on is signaled: the wait unsignals the semaphore, and
\* the image goes back to the chain it belongs to.
PresentationEngine ==
    /\ probe.fn = "Renderer_draw"
    /\ probe.presents # << >>
    /\ LET request == Head(probe.presents)
       IN  /\ probe.render_done[request.semaphore] = "signaled"
           /\ probe' = [probe EXCEPT
                           !.presents = Tail(@),
                           !.render_done[request.semaphore] = "unsignaled",
                           !.free = IF swapchain.alive /\ request.chain = swapchain.id
                                    THEN @ \cup { request.index } ELSE @]
    /\ UNCHANGED renderer_vars

\* A step of the render thread inside draw or resize.
RenderThread ==
    \/ WaitForFences
    \/ ResetFences
    \/ Acquire
    \/ RecordCommandBuffer
    \/ QueueSubmit
    \/ Present
    \/ Advance
    \/ DeviceWaitIdle
    \/ DestroyFrameBuffers
    \/ DestroySwapchain
    \/ SwapchainNew
    \/ FrameBuffersNew
    \/ ResizeReturn

\* The render thread is inside a blocking driver call that cannot return yet
\* with what it waits for: its only way on is an error of the driver.
Blocked ==
    /\ pc \notin { "idle", "panicked" }
    /\ ~ ENABLED (RenderThread /\ hist'.fatals = hist.fatals /\ pc' # "panicked")

NextSync ==
    \/ DrawCall
    \/ ResizeCall
    \/ RenderThread
    \/ PresentationEngine
    \/ \E i \in Slots : GpuComplete(i)

SpecSync == InitSync /\ [][NextSync]_vars

\* ================================================================ resources
\* ImmutableBuffer::new, ImmutableImage::new (both through
\* Device::one_time_command) and MappedBuffer::overwrite, with the GPU executing
\* what is submitted on its own.  probe holds the resource under construction.

Payloads == UNION { [1..k -> Bytes] : k \in 0..MaxLen }

\* Device memory of n bytes, with whatever it holds when it is allocated.
Memories(n) == [0..(n - 1) -> Bytes]

\* new_buffer / new_image allocate memory_requirements.size bytes, which is
\* the size asked for or more.
MemorySizes(size) == { size, size + 1 }

\* Align::copy_from_slice on the mapped memory: the payload, from offset 0.
copy_from_slice(mem, data) ==
    [i \in DOMAIN mem |-> IF i < Len(data) THEN data[i + 1] ELSE mem[i]]

\* Variant: the last byte is not copied.
ImmutableBuffer_copy_region_short(size) ==
    [src_offset |-> 0, dst_offset |-> 0, size |-> IF size > 0 THEN size - 1 ELSE 0]

\* vk::BufferCopy { src_offset: 0, dst_offset: 0, size }
ImmutableBuffer_copy_region(size) ==
    [src_offset |-> 0, dst_offset |-> 0, size |-> size]

\* vkCmdCopyBuffer as the GPU executes it.
cmd_copy_buffer(src, dst, region) ==
    [i \in DOMAIN dst |->
        IF region.dst_offset <= i /\ i < region.dst_offset + region.size
        THEN src[i - region.dst_offset + region.src_offset]
        ELSE dst[i]]

\* The closure ImmutableBuffer::new gives to one_time_command.
ImmutableBuffer_commands(size) ==
    << [cmd |-> "copy_buffer", region |-> ImmutableBuffer_copy_region(size)] >>

\* Variant: the copy is recorded before the image is made a transfer destination.
ImmutableImage_commands_copy_first ==
    << [cmd |-> "copy_buffer_to_image", layout |-> "TRANSFER_DST_OPTIMAL"],
       [cmd |-> "pipeline_barrier", old_layout |-> "UNDEFINED",
        new_layout |-> "TRANSFER_DST_OPTIMAL"],
       [cmd |-> "pipeline_barrier", old_layout |-> "TRANSFER_DST_OPTIMAL",
        new_layout |-> "SHADER_READ_ONLY_OPTIMAL"] >>

\* The closure ImmutableImage::new gives to one_time_command.
ImmutableImage_commands ==
    << [cmd |-> "pipeline_barrier", old_layout |-> "UNDEFINED",
        new_layout |-> "TRANSFER_DST_OPTIMAL"],
       [cmd |-> "copy_buffer_to_image", layout |-> "TRANSFER_DST_OPTIMAL"],
       [cmd |-> "pipeline_barrier", old_layout |-> "TRANSFER_DST_OPTIMAL",
        new_layout |-> "SHADER_READ_ONLY_OPTIMAL"] >>

\* Variant: the fence is not waited for.
one_time_command_next_no_wait(step) ==
    CASE step = "record"          -> "queue_submit"
      [] step = "queue_submit"    -> "free"
      [] step = "wait_for_fences" -> "free"
      [] step = "free"            -> "return"

\* Device::one_time_command: command buffer, fence, begin, f, end; submit with
\* the fence; wait for the fence; destroy the fence and free the command buffer.
one_time_command_next(step) ==
    CASE step = "record"          -> "queue_submit"
      [] step = "queue_submit"    -> "wait_for_fences"
      [] step = "wait_for_fences" -> "free"
      [] step = "free"            -> "return"

one_time_command_steps == { "record", "queue_submit", "wait_for_fences", "free" }

\* ImmutableBuffer::new: staging buffer written, destination buffer,
\* one_time_command, staging buffer destroyed and its memory freed.
ImmutableBuffer_new_next(step) ==
    CASE step = "stage"  -> "dst"
      [] step = "dst"    -> "record"
      [] step = "return" -> "release"
      [] step = "release" -> "done"

\* ImmutableImage::new: staging MappedBuffer, destination image,
\* one_time_command, image view, staging buffer destroyed.
ImmutableImage_new_next(step) ==
    CASE step = "stage"  -> "dst"
      [] step = "dst"    -> "record"
      [] step = "return" -> "view"
      [] step = "view"   -> "release"
      [] step = "release" -> "done"

\* The step after `step` of the constructor `fn`.
Upload_next(fn, step) ==
    LET after(st) == IF fn = "ImmutableBuffer_new" THEN ImmutableBuffer_new_next(st)
                     ELSE ImmutableImage_new_next(st)
    IN  IF step \in one_time_command_steps
        THEN LET n == one_time_command_next(step)
             IN  IF n = "return" THEN after("return") ELSE n
        ELSE after(step)

Uploads == { "ImmutableBuffer_new", "ImmutableImage_new" }

NoMemory == [alive |-> FALSE, made |-> FALSE, mem |-> << >>]

\* MappedBuffer::new: host-visible memory mapped once and the payload written
\* to it with overwrite.
MappedBuffer_new(data, mem) ==
    [buffer |-> [alive |-> TRUE, made |-> TRUE, mem |-> copy_from_slice(mem, data)],
     size |-> Len(data), maps |-> 1, fence_waits |-> 0]

\* Variant: a shorter payload is accepted.
MappedBuffer_overwrite_shorter(this, data) ==
    IF Len(data) > this.size
    THEN [result |-> [tag |-> "Err", value |-> "Size must match when overwriting buffer."],
          this |-> this]
    ELSE [result |-> [tag |-> "Ok"],
          this |-> [this EXCEPT !.buffer.mem = copy_from_slice(@, data)]]

\* MappedBuffer::overwrite
MappedBuffer_overwrite(this, data) ==
    IF Len(data) # this.size
    THEN [result |-> [tag |-> "Err", value |-> "Size must match when overwriting buffer."],
          this |-> this]
    ELSE [result |-> [tag |-> "Ok"],
          this |-> [this EXCEPT !.buffer.mem = copy_from_slice(@, data)]]

InitUpload ==
    /\ \/ \E f \in Uploads, d \in Payloads :
             probe = [fn |-> f, step |-> "stage", data |-> d,
                      src |-> NoMemory, dst |-> NoMemory,
                      commands |-> << >>, submitted |-> FALSE, executed |-> 0,
                      command_buffer |-> "none", one_time_command |-> "none",
                      fence |-> "none", fence_signaled |-> FALSE,
                      layout |-> "UNDEFINED", copied_in |-> {}, hazard |-> FALSE,
                      result |-> Pending]
       \/ \E d \in Payloads : \E n \in MemorySizes(Len(d)) : \E m \in Memories(n) :
             probe = [fn |-> "MappedBuffer", this |-> MappedBuffer_new(d, m),
                      data |-> d, before |-> MappedBuffer_new(d, m), result |-> Pending]
    /\ frames_in_flight = FRAMES_IN_FLIGHT
    /\ image_limit = FRAMES_IN_FLIGHT
    /\ per_frame_index = 0
    /\ fence_frame_done = [i \in 0..(FRAMES_IN_FLIGHT - 1) |-> FenceCreatedSignaled]
    /\ swapchain = [id |-> 0, alive |-> FALSE, images |-> 0, min_image_count |-> 0]
    /\ frame_buffers = [chain |-> 0, alive |-> FALSE, count |-> 0]
    /\ chains_created = 0
    /\ in_flight = [i \in 0..(FRAMES_IN_FLIGHT - 1) |-> 0]
    /\ pc = "Renderer_new"
    /\ ret = "acquire"
    /\ present_index = NoIndex
    /\ hist = [ draws |-> 0, ok_draws |-> 0, fatals |-> 0, after_err |-> 0,
                acq_ood |-> 0, other |-> 0, rebuilds |-> 0, presents |-> 0,
                waited |-> {}, submitted |-> << >> ]
    /\ call = [ op |-> "none", result |-> "ok", fatal |-> FALSE, first_wait |-> FALSE,
                acq_raw |-> [code |-> "-", index |-> 0],
                acq_ret |-> [tag |-> "-", index |-> 0],
                pres_raw |-> "-", pres_ret |-> "-",
                acq_ood |-> 0, submits |-> 0, presents |-> 0, rebuilds |-> 0,
                submit_fb |-> 0, submit_img |-> 0, present_chain |-> 0 ]
    /\ destroyed = << >>

Uploading(step) == probe.fn \in Uploads /\ probe.step = step

\* A driver call of the constructor answers with an error: `?` returns it.
UploadFails ==
    probe' = [probe EXCEPT !.step = "done",
                           !.result = [tag |-> "Err", value |-> "driver"]]

\* A step of one_time_command answers with an error: `?` returns it with the
\* command buffer and the fence as they are, and the constructor returns it
\* in turn.
OneTimeCommandFails(command_buffer, fence) ==
    probe' = [probe EXCEPT !.step = "done",
                           !.command_buffer = command_buffer,
                           !.fence = fence,
                           !.one_time_command = "Err",
                           !.result = [tag |-> "Err", value |-> "driver"]]

\* Variant: the command buffer is not freed.
one_time_command_release_fence_only(p) ==
    [p EXCEPT !.fence = "destroyed", !.one_time_command = "Ok"]

\* one_time_command after the wait: destroy_fence(fence),
\* free_command_buffers(transient_command_pool, command_buffer), Ok(()).
one_time_command_release(p) ==
    [p EXCEPT !.fence = "destroyed", !.command_buffer = "freed",
              !.one_time_command = "Ok"]

\* The staging buffer: new_buffer, map_memory, copy_from_slice, unmap_memory
\* (ImmutableBuffer::new) or MappedBuffer::new (ImmutableImage::new).
UploadStage ==
    /\ Uploading("stage")
    /\ \/ \E n \in MemorySizes(Len(probe.data)) : \E m \in Memories(n) :
             probe' = [probe EXCEPT
                          !.src = IF probe.fn = "ImmutableBuffer_new"
                                  THEN [alive |-> TRUE, made |-> TRUE,
                                        mem |-> copy_from_slice(m, probe.data)]
                                  ELSE MappedBuffer_new(probe.data, m).buffer,
                          !.step = Upload_next(probe.fn, "stage")]
       \/ UploadFails
    /\ UNCHANGED renderer_vars

\* The destination: new_buffer(.., DEVICE_LOCAL) or new_image(.., DEVICE_LOCAL).
UploadDestination ==
    /\ Uploading("dst")
    /\ \/ \E n \in MemorySizes(Len(probe.data)) : \E m \in Memories(n) :
             probe' = [probe EXCEPT
                          !.dst = [alive |-> TRUE, made |-> TRUE, mem |-> m],
                          !.step = Upload_next(probe.fn, "dst")]
       \/ UploadFails
    /\ UNCHANGED renderer_vars

\* one_time_command: new_command_buffer, create_fence (not signaled),
\* begin_command_buffer, f(command_buffer), end_command_buffer.  An error
\* comes from new_command_buffer (nothing was made), from create_fence (the
\* command buffer was) or from begin / f / end (both were).
OneTimeCommandRecord ==
    /\ Uploading("record")
    /\ \/ probe' = [probe EXCEPT
                        !.commands = IF probe.fn = "ImmutableBuffer_new"
                                     THEN ImmutableBuffer_commands(Len(probe.data))
                                     ELSE ImmutableImage_commands,
                        !.command_buffer = "allocated",
                        !.fence = "unsignaled",
                        !.one_time_command = "running",
                        !.step = Upload_next(probe.fn, "record")]
       \/ OneTimeCommandFails("none", "none")
       \/ OneTimeCommandFails("allocated", "none")
       \/ OneTimeCommandFails("allocated", "unsignaled")
    /\ UNCHANGED renderer_vars

\* one_time_command: queue_submit(queue, &[submit_info], fence)?
OneTimeCommandSubmit ==
    /\ Uploading("queue_submit")
    /\ \/ probe' = [probe EXCEPT !.submitted = TRUE,
                                  !.step = Upload_next(probe.fn, "queue_submit")]
       \/ OneTimeCommandFails(probe.command_buffer, probe.fence)
    /\ UNCHANGED renderer_vars

\* one_time_command: wait_for_fences(&[fence], true, u64::MAX)?
OneTimeCommandWait ==
    /\ Uploading("wait_for_fences")
    /\ \/ /\ wait_for_fences(probe.fence = "signaled")
          /\ probe' = [probe EXCEPT !.step = Upload_next(probe.fn, "wait_for_fences")]
       \/ OneTimeCommandFails(probe.command_buffer, probe.fence)
    /\ UNCHANGED renderer_vars

\* one_time_command: destroy_fence, free_command_buffers, Ok(()).
OneTimeCommandFree ==
    /\ Uploading("free")
    /\ probe' = [one_time_command_release(probe) EXCEPT
                    !.step = Upload_next(probe.fn, "free")]
    /\ UNCHANGED renderer_vars

\* ImmutableImage::new: create_image_view(..)?
ImmutableImageView ==
    /\ Uploading("view")
    /\ \/ probe' = [probe EXCEPT !.step = Upload_next(probe.fn, "view")]
       \/ UploadFails
    /\ UNCHANGED renderer_vars

\* The staging buffer is destroyed and its memory freed; Ok(Self { .. }).
UploadRelease ==
    /\ Uploading("release")
    /\ probe' = [probe EXCEPT !.src.alive = FALSE,
                              !.step = Upload_next(probe.fn, "release"),
                              !.result = [tag |-> "Ok"]]
    /\ UNCHANGED renderer_vars

\* The GPU executes the next command of the submitted command buffer; after
\* the last one it signals the fence of the submission.
GpuExecute ==
    /\ probe.fn \in Uploads
    /\ probe.submitted
    /\ probe.executed < Len(probe.commands)
    /\ LET c == probe.commands[probe.executed + 1]
           last == probe.executed + 1 = Len(probe.commands)
           p == [probe EXCEPT !.executed = @ + 1,
                              !.fence = IF last /\ @ = "unsignaled" THEN "signaled" ELSE @,
                              !.fence_signaled = @ \/ last]
       IN  CASE c.cmd = "copy_buffer" ->
                  IF probe.src.alive
                  THEN probe' = [p EXCEPT !.dst.mem =
                                     cmd_copy_buffer(probe.src.mem, @, c.region)]
                  ELSE \E m \in Memories(Cardinality(DOMAIN probe.dst.mem)) :
                          probe' = [p EXCEPT !.dst.mem = m, !.hazard = TRUE]
             [] c.cmd = "copy_buffer_to_image" ->
                  probe' = [p EXCEPT !.copied_in = @ \cup { probe.layout },
                                     !.hazard = @ \/ ~probe.src.alive]
             [] c.cmd = "pipeline_barrier" ->
                  probe' = [p EXCEPT !.layout = c.new_layout]
    /\ UNCHANGED renderer_vars

\* overwrite(data) on a MappedBuffer, with a payload of any length.
MappedBufferOverwrite ==
    /\ probe.fn = "MappedBuffer"
    /\ \E d \in Payloads :
          LET r == MappedBuffer_overwrite(probe.this, d)
          IN  probe' = [probe EXCEPT !.data = d, !.before = probe.this,
                                     !.this = r.this, !.result = r.result]
    /\ UNCHANGED renderer_vars

NextUpload ==
    \/ UploadStage
    \/ UploadDestination
    \/ OneTimeCommandRecord
    \/ OneTimeCommandSubmit
    \/ OneTimeCommandWait
    \/ OneTimeCommandFree
    \/ ImmutableImageView
    \/ UploadRelease
    \/ GpuExecute
    \/ MappedBufferOverwrite

SpecUpload == InitUpload /\ [][NextUpload]_vars

\* ================================================================ application

\* Resumed events the event loop delivers.
MaxResumes == 2

\* Window events the event loop delivers.
MaxWindowEvents == 3

WindowEvents == { "CloseRequested", "RedrawRequested", "Resized", "Escape", "OtherKey" }

\* App::default(), with the event loop about to run.  windows_created,
\* renderer_new, renderers, calls, failed and calls_after_err count what the
\* handlers did; last is the handler that ran last.
App_default ==
    [fn |-> "App", initialized |-> FALSE, window |-> "None", renderer |-> "None",
     exit |-> FALSE, redraw |-> FALSE, running |-> TRUE,
     resumes |-> 0, events |-> 0,
     windows_created |-> 0, renderer_new |-> 0, renderers |-> 0,
     calls |-> 0, failed |-> FALSE, calls_after_err |-> 0,
     last |-> [event |-> "none", result |-> "Ok", called |-> FALSE]]

\* App::initialize without its early return.
App_initialize_again(this, window_ok, path_ok, renderer_ok) ==
    IF ~window_ok
    THEN [this |-> this, result |-> "Err"]
    ELSE IF ~path_ok
    THEN [this |-> [this EXCEPT !.windows_created = @ + 1], result |-> "Err"]
    ELSE IF ~renderer_ok
    THEN [this |-> [this EXCEPT !.windows_created = @ + 1, !.renderer_new = @ + 1],
          result |-> "Err"]
    ELSE [this |-> [this EXCEPT !.windows_created = @ + 1, !.renderer_new = @ + 1,
                                !.renderers = @ + 1,
                                !.initialized = TRUE, !.window = "Some",
                                !.renderer = "Some"],
          result |-> "Ok"]

\* App::initialize: create_window, assets_path and Renderer::new in this
\* order, each returning early on failure; the window of a failed call is a
\* local that is dropped.
App_initialize(this, window_ok, path_ok, renderer_ok) ==
    IF this.initialized
    THEN [this |-> this, result |-> "Ok"]
    ELSE IF ~window_ok
    THEN [this |-> this, result |-> "Err"]
    ELSE IF ~path_ok
    THEN [this |-> [this EXCEPT !.windows_created = @ + 1], result |-> "Err"]
    ELSE IF ~renderer_ok
    THEN [this |-> [this EXCEPT !.windows_created = @ + 1, !.renderer_new = @ + 1],
          result |-> "Err"]
    ELSE [this |-> [this EXCEPT !.windows_created = @ + 1, !.renderer_new = @ + 1,
                                !.renderers = @ + 1,
                                !.initialized = TRUE, !.window = "Some",
                                !.renderer = "Some"],
          result |-> "Ok"]

\* App::resumed: initialize, exit on Err, then the first request_redraw.
App_resumed(this, window_ok, path_ok, renderer_ok) ==
    LET init  == App_initialize(this, window_ok, path_ok, renderer_ok)
        after == IF init.result = "Err"
                 THEN [init.this EXCEPT !.exit = TRUE]
                 ELSE init.this
    IN  [after EXCEPT !.redraw = (@ \/ after.window = "Some"),
                      !.resumes = @ + 1,
                      !.last = [event |-> "resumed", result |-> init.result,
                                called |-> FALSE]]

\* The arms of App::window_event that call the renderer: if there is a
\* renderer it is called, and an Err makes the handler call event_loop.exit().
App_call_renderer(this, event, result) ==
    IF this.renderer = "Some"
    THEN [this EXCEPT !.calls = @ + 1,
                      !.calls_after_err = IF this.failed THEN @ + 1 ELSE @,
                      !.failed = (@ \/ result = "Err"),
                      !.exit = (@ \/ result = "Err"),
                      !.last = [event |-> event, result |-> result, called |-> TRUE]]
    ELSE [this EXCEPT !.last = [event |-> event, result |-> "Ok", called |-> FALSE]]

\* App::window_event.
App_window_event(this, event, result) ==
    LET seen == [this EXCEPT !.events = @ + 1] IN
    CASE event \in { "CloseRequested", "Escape" } ->
           [seen EXCEPT !.exit = TRUE,
                        !.last = [event |-> event, result |-> "Ok", called |-> FALSE]]
      [] event = "RedrawRequested" ->
           [App_call_renderer(seen, event, result) EXCEPT
                !.redraw = (this.window = "Some")]
      [] event = "Resized" ->
           App_call_renderer(seen, event, result)
      [] OTHER ->
           [seen EXCEPT !.last = [event |-> event, result |-> "Ok", called |-> FALSE]]

InitApp ==
    /\ probe = App_default
    /\ frames_in_flight = FRAMES_IN_FLIGHT
    /\ image_limit = FRAMES_IN_FLIGHT
    /\ per_frame_index = 0
    /\ fence_frame_done = [i \in 0..(FRAMES_IN_FLIGHT - 1) |-> FenceCreatedSignaled]
    /\ swapchain = [id |-> 0, alive |-> FALSE, images |-> 0, min_image_count |-> 0]
    /\ frame_buffers = [chain |-> 0, alive |-> FALSE, count |-> 0]
    /\ chains_created = 0
    /\ in_flight = [i \in 0..(FRAMES_IN_FLIGHT - 1) |-> 0]
    /\ pc = "Renderer_new"
    /\ ret = "acquire"
    /\ present_index = NoIndex
    /\ hist = [ draws |-> 0, ok_draws |-> 0, fatals |-> 0, after_err |-> 0,
                acq_ood |-> 0, other |-> 0, rebuilds |-> 0, presents |-> 0,
                waited |-> {}, submitted |-> << >> ]
    /\ call = [ op |-> "none", result |-> "ok", fatal |-> FALSE, first_wait |-> FALSE,
                acq_raw |-> [code |-> "-", index |-> 0],
                acq_ret |-> [tag |-> "-", index |-> 0],
                pres_raw |-> "-", pres_ret |-> "-",
                acq_ood |-> 0, submits |-> 0, presents |-> 0, rebuilds |-> 0,
                submit_fb |-> 0, submit_img |-> 0, present_chain |-> 0 ]
    /\ destroyed = << >>

\* The event loop delivers resumed.
AppResumed ==
    /\ probe.fn = "App" /\ probe.running
    /\ probe.resumes < MaxResumes
    /\ \E window_ok \in BOOLEAN, path_ok \in BOOLEAN, renderer_ok \in BOOLEAN :
          probe' = App_resumed(probe, window_ok, path_ok, renderer_ok)
    /\ UNCHANGED renderer_vars

\* The event loop delivers an event of the window; draw and resize return Ok
\* or Err.
AppWindowEvent ==
    /\ probe.fn = "App" /\ probe.running
    /\ probe.window = "Some"
    /\ probe.events < MaxWindowEvents
    /\ \E event \in WindowEvents, result \in { "Ok", "Err" } :
          probe' = App_window_event(probe, event, result)
    /\ UNCHANGED renderer_vars

\* event_loop.exit() only asks the loop to stop: run_app returns when the
\* loop has finished the iteration in which exit was requested.
AppRunReturns ==
    /\ probe.fn = "App" /\ probe.running
    /\ probe.exit
    /\ probe' = [probe EXCEPT !.running = FALSE]
    /\ UNCHANGED renderer_vars

NextApp ==
    \/ AppResumed
    \/ AppWindowEvent
    \/ AppRunReturns

SpecApp == InitApp /\ [][NextApp]_vars

\* ================================================================ progress
\* The frame loop with its scheduling: the render thread is a sequential
\* program that takes its next step whenever that step can be taken without
\* an error of the driver, and the GPU completes what was submitted to it.
\* Errors of the driver stay possible and are never forced.  The presentation
\* engine answers with a transient signal only while MaySignal holds, that is
\* finitely often.

Progress ==
    RenderThread /\ ~call'.fatal

GpuCompletes ==
    \E i \in Slots : GpuComplete(i)

SpecLive ==
    Init /\ [][Next]_vars /\ WF_vars(Progress) /\ WF_vars(GpuCompletes)

\* A call of draw has not returned yet.
InDraw ==
    call.op = "draw" /\ pc \notin { "idle", "panicked" }

\* ================================================================ claims

RecreateSteps == { "device_wait_idle", "destroy_frame_buffers", "destroy_swapchain",
                   "Swapchain_new", "FrameBuffers_new" }

\* Submissions the GPU has not completed, over all slots.
InFlightTotal ==
    LET Sum[k \in 0..frames_in_flight] ==
            IF k = 0 THEN 0 ELSE Sum[k - 1] + in_flight[k - 1]
    IN  Sum[frames_in_flight]

\* A call of draw is in progress.
DrawRunning == call.op = "draw" /\ call.result = "running"

\* No driver call has answered anything but success, and resize was not called.
Undisturbed == hist.fatals = 0 /\ hist.acq_ood = 0 /\ hist.other = 0

\* C1. Frame gating: a slot has at most one submission that the GPU has not
\* completed, so at most frames_in_flight submissions are incomplete; and from
\* the reset of the slot's fence to the submission (the command buffer is
\* reset, recorded and submitted in between) the slot's previous submission
\* has completed.
C1_FrameGating ==
    /\ \A i \in Slots : in_flight[i] <= 1
    /\ InFlightTotal <= frames_in_flight
    /\ pc \in { "acquire", "record_command_buffer", "queue_submit" }
          => in_flight[per_frame_index] = 0
    /\ pc \in RecreateSteps /\ call.op = "draw" /\ call.submits = 0
          => in_flight[per_frame_index] = 0

\* C1 witness: a slot is being reused (every slot has been submitted on before)
\* while the submission of another slot is still executing.
C1_Witness ==
    /\ pc = "queue_submit"
    /\ Len(hist.submitted) >= frames_in_flight
    /\ \E j \in Slots : j # per_frame_index /\ in_flight[j] = 1

\* C2. No frame is drawn against a stale chain: whenever draw records, submits
\* or presents, the swapchain is alive, the frame buffers are alive and were
\* built from it, and the acquired image index comes from it and names one of
\* those frame buffers.
C2_NoStaleChain ==
    pc \in { "record_command_buffer", "queue_submit", "present" } =>
        /\ swapchain.alive
        /\ frame_buffers.alive
        /\ frame_buffers.chain = swapchain.id
        /\ present_index.chain = swapchain.id
        /\ present_index.index < frame_buffers.count

\* C3. The slot index is the number of successful draws modulo the number of
\* slots, whatever rebuilds happened during them.
C3_SlotIndex ==
    /\ per_frame_index \in Slots
    /\ per_frame_index = hist.ok_draws % frames_in_flight

\* C3 witness: with three slots, the index is back at 0 after three successful
\* draws, one of which rebuilt the swapchain after present.
C3_Witness ==
    /\ frames_in_flight = 3
    /\ hist.ok_draws = 3
    /\ per_frame_index = 0
    /\ call.op = "draw" /\ call.result = "ok" /\ call.pres_ret = "true"

\* C4. Swapchain::acquire answers None for suboptimal and for out-of-date, and
\* Swapchain::present answers true for both; every other error is an Err of
\* both; a plain success is Some(index) and false.
C4_WrapperResults ==
    /\ call.acq_raw.code \in TransientCodes => call.acq_ret.tag = "None"
    /\ call.acq_raw.code \in FatalCodes => call.acq_ret.tag = "Err"
    /\ call.acq_raw.code = "SUCCESS"
          => call.acq_ret = [tag |-> "Some", index |-> call.acq_raw.index]
    /\ call.pres_raw \in TransientCodes => call.pres_ret = "true"
    /\ call.pres_raw \in FatalCodes => call.pres_ret = "Err"
    /\ call.pres_raw = "SUCCESS" => call.pres_ret = "false"

\* C4 witness: a draw, after a successful one, whose acquire was answered
\* suboptimal: it got None and rebuilds before anything is submitted.
C4_Witness ==
    /\ call.acq_raw.code = "SUBOPTIMAL_KHR"
    /\ pc = "device_wait_idle"
    /\ call.submits = 0
    /\ hist.ok_draws >= 1

\* C5. Rebuild order: recreate_swapchain is entered only on a None of acquire,
\* a true of present or a resize; it waits for the device to be idle, destroys
\* the frame buffers, then the swapchain, creates the new swapchain, then the
\* frame buffers from it, and returns to where it was called from; from the
\* wait to the return nothing is acquired or submitted, and the GPU is idle
\* while things are destroyed and created.
C5_RebuildOrder ==
    [][ /\ (pc' = "device_wait_idle" /\ pc # "device_wait_idle")
            => \/ pc = "acquire" /\ call'.acq_ret.tag = "None"
               \/ pc = "present" /\ call'.pres_ret = "true"
               \/ pc = "idle" /\ call'.op = "resize"
        /\ (pc = "device_wait_idle" /\ pc' \notin { "device_wait_idle", "idle" })
            => /\ pc' = "destroy_frame_buffers"
               /\ \A i \in Slots : in_flight[i] = 0
               /\ frame_buffers' = frame_buffers /\ swapchain' = swapchain
        /\ pc = "destroy_frame_buffers"
            => /\ pc' = "destroy_swapchain"
               /\ ~frame_buffers'.alive
               /\ swapchain' = swapchain
        /\ pc = "destroy_swapchain"
            => /\ pc' = "Swapchain_new"
               /\ ~frame_buffers.alive
               /\ ~swapchain'.alive
        /\ (pc = "Swapchain_new" /\ pc' # "idle")
            => /\ pc' = "FrameBuffers_new"
               /\ ~swapchain.alive /\ swapchain'.alive /\ swapchain'.id # swapchain.id
               /\ frame_buffers' = frame_buffers
        /\ (pc = "FrameBuffers_new" /\ pc' # "idle")
            => /\ pc' = ret
               /\ frame_buffers'.alive /\ frame_buffers'.chain = swapchain.id
               /\ swapchain' = swapchain
        /\ pc \in RecreateSteps
            => /\ \A i \in Slots : in_flight'[i] <= in_flight[i]
               /\ present_index' = present_index \/ pc' = "idle"
               /\ call'.submits = call.submits
      ]_vars

\* C5 witness: in a rebuild asked for by present, the new chain exists and the
\* frame buffers of the old one are destroyed and not yet rebuilt.
C5_Witness ==
    /\ pc = "FrameBuffers_new"
    /\ ret = "advance"
    /\ swapchain.alive /\ swapchain.id = 2
    /\ ~frame_buffers.alive /\ frame_buffers.chain = 1

\* C6. Transient presentation signals are never surfaced: a draw returns an
\* error only when one of its driver calls (those of a rebuild included)
\* answered with an error other than out-of-date and suboptimal.
C6_TransientNotSurfaced ==
    (call.op = "draw" /\ call.result = "err") => call.fatal

\* C6 witness: a draw returned Ok after an out-of-date acquire and a transient
\* answer of present, each followed by a rebuild.
C6_Witness ==
    /\ call.op = "draw" /\ call.result = "ok"
    /\ call.acq_ood = 1
    /\ call.pres_raw \in TransientCodes
    /\ call.rebuilds = 2

\* C7. With two slots and an undisturbed run, k calls of draw make k
\* submissions and k presents, one of each per call, on slots 0,1,0,1,..., and
\* no rebuild.
C7_UndisturbedRun ==
    (frames_in_flight = 2 /\ Undisturbed) =>
        /\ hist.rebuilds = 0
        /\ hist.submitted = [j \in 1..Len(hist.submitted) |-> (j - 1) % 2]
        /\ ~DrawRunning => /\ hist.ok_draws = hist.draws
                          /\ Len(hist.submitted) = hist.draws
                          /\ hist.presents = hist.draws
        /\ DrawRunning => /\ hist.ok_draws = hist.draws - 1
                          /\ Len(hist.submitted) = hist.draws - 1 + call.submits
                          /\ hist.presents = hist.draws - 1 + call.presents
                          /\ call.submits <= 1 /\ call.presents <= call.submits

\* C7 witness: five undisturbed draws with two slots: slots 0,1,0,1,0.
C7_Witness ==
    /\ frames_in_flight = 2 /\ Undisturbed
    /\ pc = "idle"
    /\ hist.draws = 5
    /\ hist.submitted = << 0, 1, 0, 1, 0 >>
    /\ hist.presents = 5

\* C8. When the only thing but success the driver ever answers is one
\* out-of-date of acquire (and resize is not called), the swapchain is rebuilt
\* once, and the draw of that acquire returns Ok after one submission and one
\* present, both against the rebuilt chain (the second one created) and with an
\* image acquired from it.
C8_OneOutOfDate ==
    (hist.acq_ood = 1 /\ hist.other = 0 /\ hist.fatals = 0) =>
        /\ hist.rebuilds = IF pc \in RecreateSteps THEN 0 ELSE 1
        /\ chains_created = IF pc \in { "device_wait_idle", "destroy_frame_buffers",
                                        "destroy_swapchain", "Swapchain_new" }
                            THEN 1 ELSE 2
        /\ call.acq_ood = 1 =>
              /\ call.result \in { "running", "ok" }
              /\ call.submits <= 1 /\ call.presents <= call.submits
              /\ call.submits = 1 => call.submit_fb = 2 /\ call.submit_img = 2
              /\ call.presents = 1 => call.present_chain = 2
              /\ call.result = "ok" => call.submits = 1 /\ call.presents = 1

\* C8 witness: the third draw met the out-of-date acquire and has returned Ok.
C8_Witness ==
    /\ hist.acq_ood = 1 /\ hist.other = 0 /\ hist.fatals = 0
    /\ hist.draws = 3
    /\ call.acq_ood = 1 /\ call.result = "ok"
    /\ hist.rebuilds = 1

\* C9. The first fence wait of every slot finds the fence signaled, and so
\* does every wait of the first frames_in_flight draws when the draws before
\* it returned Ok.
C9_FirstWaitDoesNotBlock ==
    pc = "wait_for_fences" =>
        /\ call.first_wait => fence_frame_done[per_frame_index]
        /\ (hist.draws <= frames_in_flight /\ hist.fatals = 0)
              => (call.first_wait /\ fence_frame_done[per_frame_index])

\* C9 witness: the first wait of the last slot, while the submission of slot 0
\* is still executing.
C9_Witness ==
    /\ pc = "wait_for_fences"
    /\ call.first_wait
    /\ frames_in_flight >= 2
    /\ per_frame_index = frames_in_flight - 1
    /\ in_flight[0] = 1

\* C10. When a driver call of draw answers with an error other than
\* out-of-date and suboptimal, draw returns an error with that step: there is
\* no state in which the call goes on after it, the slot index is not
\* advanced, and nothing of the frame is submitted or presented afterwards.
C10_FatalAborts ==
    call.fatal =>
        /\ pc = "idle"
        /\ call.result = "err"
        /\ call.op = "draw" =>
              /\ per_frame_index = hist.ok_draws % frames_in_flight
              /\ call.presents <= call.submits /\ call.submits <= 1

\* C10 witness: present failed after the frame was submitted; draw returned the
\* error and did not present.
C10_Witness ==
    /\ call.fatal /\ call.op = "draw" /\ call.result = "err"
    /\ call.submits = 1 /\ call.presents = 0
    /\ call.pres_raw \in FatalCodes

\* C11. Per-slot state machine: whenever no call of the renderer is in
\* progress, every slot is either idle with its fence signaled or has a
\* submission pending that will signal the fence; in particular after draw
\* returned an error no slot has its fence unsignaled and nothing pending.
C11_SlotStateMachine ==
    pc = "idle" =>
        \A i \in Slots : fence_frame_done[i] \/ in_flight[i] > 0

\* Every handle that has the name b in the drop log is preceded by one named a.
DestroyedBefore(a, b) ==
    \A j \in DOMAIN destroyed :
        destroyed[j] = b => \E i \in 1..(j - 1) : destroyed[i] = a

\* The handles created from the device.
DeviceObjects ==
    { "fence_frame_done", "semaphore_image_ready", "semaphore_render_done",
      "pipeline", "pipeline_layout", "uniforms", "descriptor_pool",
      "descriptor_set_layout", "indices", "vertices", "sampler", "image",
      "frame_buffers", "render_pass", "image_views", "swapchain",
      "transient_command_pool", "command_buffer", "command_pool" }

\* << a, b >>: a depends on b (or the order is one the teardown promises), so
\* a is to be destroyed before b.
TeardownOrder ==
    { << a, b >> : a \in { "fence_frame_done", "semaphore_image_ready",
                           "semaphore_render_done" },
                   b \in { "transient_command_pool", "command_pool" } }
    \cup { << "command_buffer", "command_pool" >>,
           << "frame_buffers", "render_pass" >>,
           << "pipeline", "render_pass" >>,
           << "frame_buffers", "image_views" >>,
           << "image_views", "swapchain" >>,
           << "swapchain", "device" >>,
           << "swapchain", "surface" >>,
           << "device", "instance" >>,
           << "surface", "instance" >>,
           << "debugging", "instance" >> }
    \cup { << a, "device" >> : a \in DeviceObjects }

C13_IdleBeforeDestroy ==
    pc \in { "destroy_frame_buffers", "destroy_swapchain", "drop_destroy" }
        => \A i \in Slots : in_flight[i] = 0

\* C13 witness: the rebuild after present is about to destroy the frame
\* buffers the frame just submitted was recorded with.
C13_Witness ==
    /\ pc = "destroy_frame_buffers"
    /\ ret = "advance"
    /\ call.submits = 1
    /\ call.submit_fb = frame_buffers.chain
    /\ frame_buffers.alive

\* C14. Teardown after partial failure is safe: no handle is destroyed twice
\* and no destroyed handle is passed to a later call: whenever the frame
\* buffers or the swapchain are about to be destroyed (in a rebuild or in
\* drop) or used (acquire, record, present, frame buffer creation), they are
\* alive.
C14_NoDoubleDestroy ==
    /\ pc = "destroy_frame_buffers" => frame_buffers.alive
    /\ pc = "destroy_swapchain" => swapchain.alive
    /\ pc = "drop_destroy" => frame_buffers.alive /\ swapchain.alive
    /\ pc \in { "acquire", "present", "FrameBuffers_new" } => swapchain.alive
    /\ pc = "record_command_buffer" => frame_buffers.alive

\* C15. The debug messenger is destroyed last among the objects it may log
\* about: everything created from the device, the device and the surface are
\* destroyed before it, and only the instance after it.
C15_DebuggingLast ==
    \A j \in DOMAIN destroyed :
        destroyed[j] = "debugging" =>
            /\ DeviceObjects \cup { "device", "surface" }
                  \subseteq { destroyed[i] : i \in 1..(j - 1) }
            /\ \A i \in (j + 1)..Len(destroyed) : destroyed[i] = "instance"

\* C15 witness: a renderer with debugging data was dropped.
C15_Witness ==
    /\ pc = "dropped"
    /\ \E j \in DOMAIN destroyed : destroyed[j] = "debugging"
    /\ destroyed[Len(destroyed)] = "instance"

\* A selection of the set-up has been made.
Done(fn) == probe.fn = fn /\ probe.result # Pending

\* C16. Device selection: Device::new picks a tuple that passes every filter,
\* whose score is maximal among the passing tuples, and which is the earliest
\* of those with that score; it answers with the "no suitable device" error
\* exactly when no tuple passes.
C16_DeviceSelection ==
    Done("Device_new") =>
        LET t == probe.tuples
            passing == { i \in DOMAIN t : Device_is_suitable(t[i]) }
            r == probe.result
        IN  /\ r.tag = "Err" <=> passing = {}
            /\ r.tag = "Ok" =>
                  /\ r.index \in passing
                  /\ \A i \in passing : Device_score(t[i]) <= Device_score(t[r.index])
                  /\ \A i \in passing :
                        Device_score(t[i]) = Device_score(t[r.index]) => r.index <= i

\* C16 witness: two tuples pass, the second one is of a discrete GPU and the
\* first one is not: the second is picked.
C16_Witness ==
    /\ Done("Device_new")
    /\ Len(probe.tuples) = 2
    /\ Device_is_suitable(probe.tuples[1]) /\ ~probe.tuples[1].discrete
    /\ Device_is_suitable(probe.tuples[2]) /\ probe.tuples[2].discrete
    /\ probe.result = [tag |-> "Ok", index |-> 2]

\* C17. Surface format selection: the format is BGRA8 sRGB when the surface
\* advertises it, else RGBA8 sRGB when the surface advertises that, else an
\* error; never another advertised format.
C17_FormatSelection ==
    Done("Swapchain_make_format") =>
        LET advertised == Range(probe.available)
            r == probe.result
        IN  /\ BGRA8_SRGB \in advertised => r = [tag |-> "Ok", value |-> BGRA8_SRGB]
            /\ (BGRA8_SRGB \notin advertised /\ RGBA8_SRGB \in advertised)
                  => r = [tag |-> "Ok", value |-> RGBA8_SRGB]
            /\ (BGRA8_SRGB \notin advertised /\ RGBA8_SRGB \notin advertised)
                  => r.tag = "Err"

\* C17 witness: the surface advertises RGBA8 sRGB before BGRA8 sRGB, and
\* another format first: BGRA8 sRGB is chosen.
C17_Witness ==
    /\ Done("Swapchain_make_format")
    /\ Len(probe.available) = 3
    /\ probe.available[1] \notin { BGRA8_SRGB, RGBA8_SRGB }
    /\ probe.available[2] = RGBA8_SRGB
    /\ probe.available[3] = BGRA8_SRGB
    /\ probe.result = [tag |-> "Ok", value |-> BGRA8_SRGB]

\* C18 as stated. Present-mode selection: a low-latency mode (mailbox or
\* immediate) is chosen whenever the surface advertises one, FIFO is chosen
\* only when no low-latency mode is advertised, and the selection fails when
\* no preferred mode is advertised.
C18_LowLatencyPreferred ==
    Done("Swapchain_make_present_mode") =>
        LET advertised == Range(probe.available)
            low_latency == { "MAILBOX", "IMMEDIATE" }
            r == probe.result
        IN  /\ advertised \cap low_latency # {}
                  => r.tag = "Ok" /\ r.value \in advertised \cap low_latency
            /\ (r.tag = "Ok" /\ r.value = "FIFO") => advertised \cap low_latency = {}
            /\ advertised \cap (low_latency \cup { "FIFO" }) = {} => r.tag = "Err"

\* C18, amended. Present-mode selection: FIFO is chosen whenever the surface
\* advertises it, IMMEDIATE only when FIFO is not advertised, MAILBOX never,
\* and the selection fails when neither FIFO nor IMMEDIATE is advertised.
C18_FifoPreferred ==
    Done("Swapchain_make_present_mode") =>
        LET advertised == Range(probe.available)
            r == probe.result
        IN  /\ "FIFO" \in advertised => r = [tag |-> "Ok", value |-> "FIFO"]
            /\ ("FIFO" \notin advertised /\ "IMMEDIATE" \in advertised)
                  => r = [tag |-> "Ok", value |-> "IMMEDIATE"]
            /\ ("FIFO" \notin advertised /\ "IMMEDIATE" \notin advertised)
                  => r.tag = "Err"

\* C18 witness: the surface advertises MAILBOX, IMMEDIATE and FIFO, in this
\* order, and FIFO is chosen.
C18_Witness ==
    /\ Done("Swapchain_make_present_mode")
    /\ probe.available = << "MAILBOX", "IMMEDIATE", "FIFO" >>
    /\ probe.result = [tag |-> "Ok", value |-> "FIFO"]

\* v clamped into [lo, hi], said without the function: the value itself when
\* it is inside, else the bound it is beyond.
IsClamped(r, v, lo, hi) ==
    /\ lo <= r /\ r <= hi
    /\ (lo <= v /\ v <= hi) => r = v
    /\ v < lo => r = lo
    /\ v > hi => r = hi

\* C19. Extent computation: when the surface reports the client-decides value
\* (u32::MAX, u32::MAX), the extent is the window size clamped into
\* [min_image_extent, max_image_extent], width and height each; otherwise it
\* is the current extent the surface reports, unchanged.
C19_ComputeExtent ==
    Done("Swapchain_compute_extent") =>
        LET c == probe.capabilities
            r == probe.result.value
        IN  IF c.current_extent = ClientDecides
            THEN /\ IsClamped(r.width, probe.size.width,
                              c.min_image_extent.width, c.max_image_extent.width)
                 /\ IsClamped(r.height, probe.size.height,
                              c.min_image_extent.height, c.max_image_extent.height)
            ELSE r = c.current_extent

\* C19 witness: the client decides, the window is wider than the largest and
\* lower than the smallest extent: the extent is (max width, min height).
C19_Witness ==
    /\ Done("Swapchain_compute_extent")
    /\ probe.capabilities.current_extent = ClientDecides
    /\ probe.size.width > probe.capabilities.max_image_extent.width
    /\ probe.size.height < probe.capabilities.min_image_extent.height
    /\ probe.result.value = [ width |-> probe.capabilities.max_image_extent.width,
                              height |-> probe.capabilities.min_image_extent.height ]

\* C20. The extent a swapchain stores lies within [min_image_extent,
\* max_image_extent] of the capabilities reported when it was made, in width
\* and in height.
C20_ExtentInRange ==
    Done("Swapchain_compute_extent") =>
        LET c == probe.capabilities
            r == probe.result.value
        IN  /\ c.min_image_extent.width <= r.width
            /\ r.width <= c.max_image_extent.width
            /\ c.min_image_extent.height <= r.height
            /\ r.height <= c.max_image_extent.height

\* C20 witness: the window is larger than the largest extent in both
\* directions, the client decides, and the stored extent is the largest one.
C20_Witness ==
    /\ Done("Swapchain_compute_extent")
    /\ probe.capabilities.current_extent = ClientDecides
    /\ probe.size.width > probe.capabilities.max_image_extent.width
    /\ probe.size.height > probe.capabilities.max_image_extent.height
    /\ probe.capabilities.min_image_extent # probe.capabilities.max_image_extent
    /\ probe.result.value = probe.capabilities.max_image_extent

\* C21. Image count: for surface capabilities with min_image_count >= 1 and
\* max_image_count either 0 or >= min_image_count, the image count the chain
\* is asked for is min_image_count or min_image_count + 1, and it is not above
\* max_image_count when that is not 0.
C21_ImageCount ==
    Done("Renderer_frames_in_flight") =>
        LET c == probe.capabilities
            n == probe.result.value
        IN  (c.min_image_count >= 1
                /\ (c.max_image_count = 0 \/ c.min_image_count <= c.max_image_count))
            => /\ probe.result.tag = "Ok"
               /\ n \in { c.min_image_count, c.min_image_count + 1 }
               /\ c.max_image_count # 0 => n <= c.max_image_count

\* C21 witness: the surface allows one image only; one is asked for, although
\* FRAMES_IN_FLIGHT is more.
C21_Witness ==
    /\ Done("Renderer_frames_in_flight")
    /\ probe.capabilities = [min_image_count |-> 1, max_image_count |-> 1]
    /\ probe.result.value = 1
    /\ probe.result.value < FRAMES_IN_FLIGHT

\* C22. The number of frame slots is the frames-in-flight value computed at
\* startup from the surface capabilities; that value is the modulus of the slot
\* index and the image count every swapchain creation asks for, and it never
\* changes.
C22_SlotCount ==
    /\ [](/\ \E c \in SurfaceCapabilities :
                 /\ frames_in_flight = compute_frames_in_flight(c)
                 /\ image_limit = ImageLimit(c)
           /\ DOMAIN fence_frame_done = Slots
           /\ DOMAIN in_flight = Slots
           /\ per_frame_index \in Slots
           /\ swapchain.min_image_count = frames_in_flight)
    /\ [][ /\ frames_in_flight' = frames_in_flight
           /\ DOMAIN fence_frame_done' = DOMAIN fence_frame_done
           /\ per_frame_index' # per_frame_index
                 => per_frame_index' = (per_frame_index + 1) % frames_in_flight
           /\ swapchain'.id # swapchain.id
                 => swapchain'.min_image_count = frames_in_flight
         ]_vars

\* C22 witness: three slots (the surface asks for at least three images); the
\* chain was rebuilt, asked for with three images, and the last slot is in use.
C22_Witness ==
    /\ frames_in_flight = 3
    /\ swapchain.id = 2 /\ swapchain.alive
    /\ swapchain.min_image_count = 3
    /\ per_frame_index = 2

\* C23. resize(size) always rebuilds the swapchain and the frame buffers with
\* the size it is given, whatever the calls before it returned: when it
\* returns Ok it has made one rebuild, the chain is a new one and alive, the
\* frame buffers are alive and built from it, and on a surface that reports
\* the (u32::MAX, u32::MAX) extent the extent of the chain is the given size
\* clamped into the extent bounds of the surface.
C23_ResizeRebuilds ==
    (call.op = "resize" /\ call.result = "ok") =>
        /\ call.rebuilds = 1
        /\ swapchain.alive /\ swapchain.id = chains_created
        /\ frame_buffers.alive /\ frame_buffers.chain = swapchain.id
        /\ probe.size.tag = "Some"
        /\ probe.result.tag = "Ok"
        /\ probe.capabilities.current_extent = ClientDecides
              => /\ probe.result.value.width =
                       Clamp(probe.size.value.width,
                             probe.capabilities.min_image_extent.width,
                             probe.capabilities.max_image_extent.width)
                 /\ probe.result.value.height =
                       Clamp(probe.size.value.height,
                             probe.capabilities.min_image_extent.height,
                             probe.capabilities.max_image_extent.height)

\* C23 witness: the draw before returned an error; resize is given a size
\* wider and lower than the surface allows and returns Ok with the chain at
\* the nearest allowed extent.
C23_Witness ==
    /\ call.op = "resize" /\ call.result = "ok"
    /\ hist.fatals = 1
    /\ probe.capabilities.current_extent = ClientDecides
    /\ probe.size.value.width > probe.capabilities.max_image_extent.width
    /\ probe.size.value.height < probe.capabilities.min_image_extent.height
    /\ probe.result.value = [width |-> probe.capabilities.max_image_extent.width,
                             height |-> probe.capabilities.min_image_extent.height]

\* C24: an immutable upload is a synchronous barrier: the constructor returns Ok
\* only after the fence of its one-time submission was signaled (every recorded
\* command executed), and the staging buffer is destroyed only after that, never
\* while the copy may still execute.
C24_UploadBarrier ==
    probe.fn \in Uploads =>
        /\ probe.result.tag = "Ok" =>
              probe.fence_signaled /\ probe.executed = Len(probe.commands)
        /\ (probe.src.made /\ ~probe.src.alive) => probe.fence_signaled
        /\ ~probe.hazard

C24_Witness ==
    /\ probe.fn \in Uploads
    /\ probe.result.tag = "Ok"
    /\ probe.src.made /\ ~probe.src.alive
    /\ probe.fence = "destroyed"

\* C25: an image upload records, in this order, the barrier undefined ->
\* transfer-destination, the buffer-to-image copy, the barrier
\* transfer-destination -> shader-read-only; the image is shader-read-only when
\* the constructor returns Ok and is never copied into in another layout than
\* transfer-destination.
C25_ImageLayouts ==
    probe.fn = "ImmutableImage_new" =>
        /\ probe.commands # << >> =>
              /\ Len(probe.commands) = 3
              /\ probe.commands[1] = [cmd |-> "pipeline_barrier", old_layout |-> "UNDEFINED",
                                       new_layout |-> "TRANSFER_DST_OPTIMAL"]
              /\ probe.commands[2].cmd = "copy_buffer_to_image"
              /\ probe.commands[3] = [cmd |-> "pipeline_barrier",
                                       old_layout |-> "TRANSFER_DST_OPTIMAL",
                                       new_layout |-> "SHADER_READ_ONLY_OPTIMAL"]
        /\ probe.result.tag = "Ok" => probe.layout = "SHADER_READ_ONLY_OPTIMAL"
        /\ probe.copied_in \subseteq { "TRANSFER_DST_OPTIMAL" }

C25_Witness ==
    /\ probe.fn = "ImmutableImage_new"
    /\ probe.result.tag = "Ok"
    /\ probe.copied_in = { "TRANSFER_DST_OPTIMAL" }
    /\ probe.layout = "SHADER_READ_ONLY_OPTIMAL"

\* C26: when ImmutableBuffer::new returns Ok, bytes 0 .. len-1 of the
\* destination buffer are the bytes of the input, in order.
C26_RoundTrip ==
    (probe.fn = "ImmutableBuffer_new" /\ probe.result.tag = "Ok") =>
        \A i \in 0..(Len(probe.data) - 1) : probe.dst.mem[i] = probe.data[i + 1]

C26_Witness ==
    /\ probe.fn = "ImmutableBuffer_new"
    /\ probe.result.tag = "Ok"
    /\ Len(probe.data) >= 2
    /\ probe.data[1] # probe.data[2]

\* C27: MappedBuffer::overwrite with a payload whose length differs from the
\* buffer's size returns an error and leaves contents and size as they were;
\* with an equal length it succeeds and the mapped memory then holds exactly
\* the payload; it never maps again and never waits for a fence.
C27_Overwrite ==
    (probe.fn = "MappedBuffer" /\ probe.result # Pending) =>
        /\ probe.result.tag = "Err" <=> Len(probe.data) # probe.before.size
        /\ probe.result.tag = "Err" => probe.this = probe.before
        /\ probe.result.tag = "Ok" =>
              /\ \A i \in 0..(Len(probe.data) - 1) :
                    probe.this.buffer.mem[i] = probe.data[i + 1]
              /\ probe.this.size = probe.before.size
        /\ probe.this.maps = probe.before.maps
        /\ probe.this.fence_waits = probe.before.fence_waits

C27_Witness ==
    /\ probe.fn = "MappedBuffer"
    /\ probe.result.tag = "Ok"
    /\ probe.this.buffer.mem # probe.before.buffer.mem
    /\ Len(probe.data) >= 2

\* C28: the uniform buffer written while the frame of a slot is recorded is not
\* one read by a submitted, uncompleted frame of another slot.
C28_NoOverwriteInFlight ==
    [][ (pc = "record_command_buffer" /\ pc' = "queue_submit") =>
          \A j \in Slots :
             (j # per_frame_index /\ in_flight[j] > 0) =>
                TriangleRenderer_uniform_index(j)
                   # TriangleRenderer_uniform_index(per_frame_index) ]_vars

\* C29: find_memory_type returns the lowest index below memory_type_count whose
\* bit is set in memory_type_bits and whose property flags include every
\* requested flag, and an error exactly when there is no such index.
C29_FindMemoryType ==
    (probe.fn = "find_memory_type" /\ probe.result # Pending) =>
        LET fits(i) == /\ bit_is_set(probe.memory_type_bits, i)
                       /\ probe.properties \subseteq probe.memory_types[i + 1]
            indices == 0 .. (Len(probe.memory_types) - 1)
        IN  /\ probe.result.tag = "Ok" =>
                  /\ probe.result.value \in indices
                  /\ fits(probe.result.value)
                  /\ \A j \in indices : j < probe.result.value => ~fits(j)
            /\ probe.result.tag = "Err" <=> ~ \E i \in indices : fits(i)

C29_Witness ==
    /\ probe.fn = "find_memory_type"
    /\ probe.result.tag = "Ok"
    /\ probe.result.value > 0
    /\ probe.properties \subseteq probe.memory_types[1]
    /\ probe.properties # {}

\* C30: a surface query that fails while a device is selected is propagated:
\* Device::new does not answer Ok when the driver answered one of the queries
\* made for a tuple with an error.
C30_QueryFailurePropagates ==
    Done("Device_new") =>
        ((\E i \in DOMAIN probe.tuples : probe.tuples[i].failed # "none")
            => probe.result.tag = "Err")

\* C31: load_shader answers with an error when the length of the bytecode is
\* not divisible by 4, and then no shader module is created from the bytes;
\* when the length is divisible by 4 the bytes are passed to module creation
\* unchanged.
C31_LoadShader ==
    (Done("Pipeline_load_shader") /\ probe.file.tag = "Ok") =>
        /\ Len(probe.file.bytes) % 4 # 0 =>
              probe.result.tag = "Err" /\ probe.result.code = NoCode
        /\ Len(probe.file.bytes) % 4 = 0 =>
              /\ probe.result.code.tag = "Some"
              /\ code_bytes(probe.result.code.value) = probe.file.bytes

\* C32: within one draw the submission waits on the image-ready semaphore of
\* the slot, which is the one given to the acquire of that draw, and signals the
\* render-done semaphore of the slot; the present of that draw waits on that
\* render-done semaphore and presents the image index that acquire returned.
C32_FrameSemaphores ==
    (probe.fn = "Renderer_draw" /\ call.op = "draw" /\ pc \notin { "idle", "panicked" }) =>
        /\ probe.frame.wait_semaphore # -1 =>
              /\ probe.frame.wait_semaphore = per_frame_index
              /\ probe.frame.wait_semaphore = probe.frame.acquire_semaphore
              /\ probe.frame.signal_semaphore = per_frame_index
        /\ probe.frame.present_semaphore # -1 =>
              /\ probe.frame.present_semaphore = probe.frame.signal_semaphore
              /\ probe.frame.present_index = probe.frame.acquire_index
              /\ probe.frame.present_index = call.acq_ret.index

C32_Witness ==
    /\ probe.fn = "Renderer_draw"
    /\ pc = "advance"
    /\ per_frame_index = 1
    /\ probe.frame.present_semaphore = 1
    /\ probe.frame.present_index = 0
    /\ call.rebuilds = 1

\* C35: an image-ready semaphore is never given to an acquire while it holds a
\* signal that no submission has consumed, in particular not at the retry that
\* follows the rebuild after a suboptimal acquire.
C35_ImageReadyUnsignaled ==
    (probe.fn = "Renderer_draw" /\ pc = "acquire") =>
        probe.image_ready[per_frame_index] = "unsignaled"

\* C36: the render-done semaphore of a slot is never signaled by a new
\* submission while a present request that waits on it has not consumed it.
C36_RenderDoneConsumed ==
    (probe.fn = "Renderer_draw" /\ pc = "queue_submit") =>
        /\ probe.render_done[per_frame_index] = "unsignaled"
        /\ \A k \in DOMAIN probe.presents :
              probe.presents[k].semaphore # per_frame_index

\* C33 as stated: inside draw and resize the render thread blocks only in the
\* fence wait at the start of draw.
C33_TwoSuspensionPoints ==
    (probe.fn = "Renderer_draw" /\ Blocked) => pc = "wait_for_fences"

\* C33 amended: inside draw and resize the render thread blocks in the fence
\* wait of draw until the fence of the slot is signaled, in device_wait_idle of
\* recreate_swapchain until no submission is pending, and in acquire_next_image
\* until the presentation engine has an image to hand out; in no other step.
C33_SuspensionPoints ==
    probe.fn = "Renderer_draw" =>
        (Blocked <=>
            \/ pc = "wait_for_fences" /\ ~fence_frame_done[per_frame_index]
            \/ pc = "device_wait_idle" /\ \E i \in Slots : in_flight[i] > 0
            \/ pc = "acquire" /\ probe.free = {} /\ ~MaySignal)

C33_Witness ==
    /\ probe.fn = "Renderer_draw"
    /\ Blocked
    /\ pc = "device_wait_idle"
    /\ call.op = "resize"

\* C34: after draw or resize returned an error to the event handler, the
\* application has requested exit and does not call draw or resize on that
\* renderer again.
C34_NoCallAfterError ==
    probe.fn = "App" /\ probe.failed
        => probe.exit /\ probe.calls_after_err = 0

\* C40: the renderer is constructed successfully at most once; initialize
\* creates a window or calls Renderer::new only while `initialized` is false;
\* `initialized` is set only together with a constructed renderer and its
\* window; a failed initialization leaves window and renderer absent and
\* requests exit.
C40_InitializeOnce ==
    /\ [](probe.fn = "App" =>
            /\ probe.renderers <= 1
            /\ probe.initialized =>
                  probe.renderers = 1 /\ probe.window = "Some" /\ probe.renderer = "Some"
            /\ ~probe.initialized =>
                  probe.renderers = 0 /\ probe.window = "None" /\ probe.renderer = "None"
            /\ probe.last.event = "resumed" /\ probe.last.result = "Err" =>
                  probe.exit /\ probe.window = "None" /\ probe.renderer = "None")
    /\ [][probe.fn = "App" /\ probe.initialized =>
            /\ probe'.renderer_new = probe.renderer_new
            /\ probe'.windows_created = probe.windows_created]_vars

\* A second resumed event arrived after a successful initialization.
C40_Witness ==
    /\ probe.fn = "App"
    /\ probe.resumes = 2
    /\ probe.initialized
    /\ probe.renderers = 1
    /\ probe.last.event = "resumed"

\* C39: once one_time_command has returned Ok its fence is destroyed and its
\* command buffer is freed; the fence is destroyed and the command buffer
\* freed only after the GPU signaled the fence and the wait returned; after
\* a successful upload no one-time fence or transient command buffer is live.
C39_TransientsReleased ==
    probe.fn \in Uploads =>
        /\ probe.one_time_command = "Ok" =>
              probe.fence = "destroyed" /\ probe.command_buffer = "freed"
        /\ probe.fence = "destroyed" \/ probe.command_buffer = "freed" =>
              probe.fence_signaled /\ probe.one_time_command = "Ok"
        /\ probe.result.tag = "Ok" =>
              /\ probe.fence \notin { "unsignaled", "signaled" }
              /\ probe.command_buffer # "allocated"

\* An upload finished after its one_time_command returned Ok.
C39_Witness ==
    /\ probe.fn \in Uploads
    /\ probe.step = "done"
    /\ probe.result.tag = "Ok"
    /\ probe.one_time_command = "Ok"
    /\ probe.fence = "destroyed"
    /\ probe.command_buffer = "freed"

\* C37: when ImmutableBuffer::new, ImmutableImage::new or the
\* one_time_command inside them returns an error, nothing the call created is
\* left alive: staging buffer, destination, command buffer and fence are
\* destroyed.
C37_NoLeakOnError ==
    probe.fn \in Uploads /\ probe.result.tag = "Err" =>
        /\ ~probe.src.alive
        /\ ~probe.dst.alive
        /\ probe.command_buffer # "allocated"
        /\ probe.fence \notin { "unsignaled", "signaled" }

\* C38: every call of draw eventually returns, when the GPU completes every
\* submission and acquire answers 'needs recreate' only finitely often.
C38_DrawReturns ==
    InDraw ~> ~InDraw

\* C38, calls made before any call failed: such a call of draw returns.
C38_FirstDrawsReturn ==
    (InDraw /\ hist.fatals = 0) ~> ~InDraw

\* C38, converse: as long as every acquire of a call of draw has answered
\* 'needs recreate', the call has submitted nothing and has not returned: it
\* is rebuilding the swapchain or acquiring again.
C38_RecreateLoop ==
    call.op = "draw" /\ ~call.fatal /\ call.acq_ret.tag = "None" /\ call.result # "panic"
        => /\ call.submits = 0
           /\ call.presents = 0
           /\ pc \in { "acquire", "device_wait_idle", "destroy_frame_buffers",
                        "destroy_swapchain", "Swapchain_new", "FrameBuffers_new" }

====
